---- MODULE Spec2Model ----
(***************************************************************************)
(* Model of electron-ui-mcp: the session manager (ElectronContext) with    *)
(* its lazy launch, launch coalescing, close and crash handling, and the   *)
(* reference table (RefManager).                                           *)
(*                                                                         *)
(* JavaScript runs every handler to completion up to its next await, and   *)
(* runs the continuations of a settled promise (microtasks) before any     *)
(* other event.  One action of the model is therefore one such run: the    *)
(* synchronous block started by a call or by a driver event, together      *)
(* with every continuation that the block makes runnable.                  *)
(***************************************************************************)
EXTENDS Integers, Sequences, FiniteSets, TLC

\* ---------------------------------------------------------------- bounds
MaxRequests  == 3     \* tool requests (ensureReady/getPage/getApp calls and
                      \* close() calls together) in the session runs
DataRequests == 2     \* the same, in the session runs with page events
MaxEvents    == 1     \* page events (dialog, console, request) recorded
MaxRefs     == 3      \* registerElement calls in the reference-table runs
MaxClock    == 1      \* values of Date.now() in the reference-table runs
NumRand     == 2      \* outcomes of the random suffix of a snapshot id
GenRefs     == 2      \* registerElement calls per generation in the runs
                      \* with lookups
WinRequests == 1      \* requests after the first launch in the session
                      \* runs with snapshots
MaxWired    == 2      \* setupPageHandlers calls on one window in the
                      \* window runs
MaxCaptures == 1      \* captureSnapshot calls suspended at a time
MaxDeliveries == 2    \* page events delivered in the buffer runs
MaxLimit    == 2      \* largest small limit passed to the buffer readers
PageRequests == 1     \* requests after the first launch in the session
                      \* runs with windows
MaxShots    == 2      \* takeScreenshot calls in flight at a time
ActEvents   == 1      \* page events delivered in the runs with action tools
ShotRequests == 1     \* requests after the first launch in the session
                      \* runs with screenshots
MaxNodes    == 4      \* elements of a document in the element-tree runs
OutlineNodes == 3     \* elements of a document in the outline runs
QuitRequests == 1     \* requests after the first launch in the session
                      \* runs with browser_close
WireRequests == 4     \* getPage() and close() calls in the session runs
                      \* that follow the listeners
MaxOverlap == 2       \* captureSnapshot calls suspended at once
CloseRequests == 2    \* browser_close calls in the session runs that call
                      \* nothing else

\* ------------------------------------------------------ program constants
BufferCap == 100      \* console / network ring capacity
DefaultLimit == 50    \* default limit of getConsoleMessages / getNetworkRequests

\* Every launch is started by a call, so there are no more launches (and
\* processes, and first windows) than requests.
LaunchIds == 1..MaxRequests
CallIds   == 1..MaxRequests
CloseIds  == 1..MaxRequests

States    == {"idle", "launching", "ready", "error", "closed"}
CallKinds == {"ensureReady", "getPage", "getApp"}

VARIABLES
    state,            \* ElectronContext.state
    launchPromise,    \* ElectronContext.launchPromise: 0 (null) or a launch id
    app,              \* ElectronContext.app: 0 (null) or a process id
    currentPage,      \* ElectronContext.currentPage: 0 (null) or a window id
    tempUserDataDir,  \* ElectronContext.tempUserDataDir: 0 (null) or a dir id
    pendingDialogs,   \* ElectronContext.pendingDialogs
    consoleMessages,  \* ElectronContext.consoleMessages
    networkRequests,  \* ElectronContext.networkRequests
    currentSnapshot,  \* RefManager.currentSnapshot
    refCounter,       \* RefManager.refCounter
    config,           \* ElectronContext.config (the fields launch() reads)
    wired,            \* per window: how many times setupPageHandlers ran on it
    procs,            \* per process id: "none", "alive" or "exited"
    dirs,             \* temporary user-data directories that exist on disk
    launches,         \* per launch id: position of the launch() invocation
    calls,            \* per call id: position and result of the call
    closes,           \* per close id: position of the close() invocation
    clock,            \* Date.now()
    lastRef,          \* what the last registerElement call returned, and the
                      \* number of calls made in the generation so far
    stateLog,         \* changes of `state` made by the last step
    opened,           \* second windows the application has opened
    shut,             \* windows the application has closed while running
    gens,             \* the last two generations started, older first: id
                      \* and number of refs issued
    switched,         \* selectWindow has changed the active window since
                      \* the snapshot of the current generation was taken
    returned,         \* what the getPage, getElement, resolveToLocator,
                      \* getConsoleMessages or getNetworkRequests call made
                      \* by the last step was given and returned, or the
                      \* page event that the last step delivered
    emitted,          \* page events delivered so far
    capturing,        \* captureSnapshot calls suspended before processNodes
    selecting,        \* the selectWindow call suspended in its title loop
    quitting,         \* the process that a browser_close handler has asked
                      \* to quit and not heard from yet (0: none)
    acting,           \* the driver call that an interaction, navigation,
                      \* evaluation or waiting tool has made and not heard
                      \* from yet
    boxes,            \* currentBoundingBoxes of electron/snapshot.ts: the refs
                      \* that have a rectangle
    overlays,         \* per window: annotation containers in its document
    shot,             \* per takeScreenshot call: its position
    snapping          \* the snapshotId of every suspended captureSnapshot call

vars == <<state, launchPromise, app, currentPage, tempUserDataDir,
          pendingDialogs, consoleMessages, networkRequests,
          currentSnapshot, refCounter, config, wired, procs, dirs,
          launches, calls, closes, clock, lastRef, stateLog,
          opened, shut, gens, switched, returned, emitted, capturing,
          selecting, quitting, acting, boxes, overlays, shot, snapping>>

\* The variables that only the tools acting on the page change.
ext == <<acting, overlays, shot, snapping>>

\* The variables that only the window, lookup and buffer runs change.
aux == <<opened, shut, gens, switched, emitted, capturing, selecting,
         quitting, boxes, ext>>

\* ----------------------------------------------------------------- errors
\* An error value: its class, whether its text names the attempted path and
\* whether it has a remediation suggestion (ElectronMcpError.suggestion).
NoErr == [kind |-> "none", path |-> FALSE, hint |-> FALSE]

\* new Error(message): no suggestion field.  `path` tells whether the message
\* names a path.
PlainError(namesPath) == [kind |-> "Error", path |-> namesPath, hint |-> FALSE]

\* new LaunchError(message, path): the suggestion is always set and names the
\* path when one is given.
LaunchError(pathGiven) == [kind |-> "LaunchError", path |-> pathGiven, hint |-> TRUE]

\* ------------------------------------------------------- reference table
NoSnapshot == [active |-> FALSE, id |-> <<0, 0>>, timestamp |-> 0, refs |-> <<>>]

\* The ref string `e${n}`.
RefString(n) == <<"e", n>>

NoReturn == [ret |-> <<"none", 0>>, k |-> 0]

\* No read call has been made.
NoResult == [op |-> "none"]

\* No selectWindow call is suspended.
NoSelect == [pc |-> "none", sel |-> <<>>, ws |-> <<>>, pos |-> 0]

\* No driver call of an action tool is in flight.
NoAct == [pc |-> "none", tool |-> "none", page |-> 0]

\* takeScreenshot calls that can be in flight at once.
ShotIds == 1..MaxShots

\* No takeScreenshot call.  A call is given `annotate` and `page`; `labels`
\* are the entries that its injectAnnotations call read, `injected` says
\* that its container has been appended to the document, `ok` that
\* page.screenshot() has resolved.
NoShot == [pc |-> "none", annotate |-> FALSE, page |-> 0, labels |-> {},
           injected |-> FALSE, ok |-> FALSE]

\* --------------------------------------------------------- session record
\* The mutable fields of the session (and of the shared refManager) gathered
\* in one record, so that a synchronous block can be written as a chain of
\* updates.  `log` collects the changes of `state` made by the block.
Sess ==
    [state |-> state, launchPromise |-> launchPromise, app |-> app,
     currentPage |-> currentPage, pendingDialogs |-> pendingDialogs,
     consoleMessages |-> consoleMessages, networkRequests |-> networkRequests,
     currentSnapshot |-> currentSnapshot, refCounter |-> refCounter,
     wired |-> wired, log |-> <<>>, ret |-> NoResult]

Commit(S) ==
    /\ state' = S.state
    /\ launchPromise' = S.launchPromise
    /\ app' = S.app
    /\ currentPage' = S.currentPage
    /\ pendingDialogs' = S.pendingDialogs
    /\ consoleMessages' = S.consoleMessages
    /\ networkRequests' = S.networkRequests
    /\ currentSnapshot' = S.currentSnapshot
    /\ refCounter' = S.refCounter
    /\ wired' = S.wired
    /\ stateLog' = S.log
    /\ returned' = S.ret

\* this.state = s, done by `by` ("ensureReady", "close" or "event").
SetState(S, s, by) ==
    [S EXCEPT !.state = s,
              !.log = IF S.state = s THEN @ ELSE Append(@, <<S.state, s, by>>)]

\* RefManager.clear()
Clear(S) == [S EXCEPT !.currentSnapshot = NoSnapshot, !.refCounter = 0]

\* reset() that forgets the console log.
MutReset(S, by) ==
    Clear([SetState(S, "idle", by) EXCEPT
              !.app = 0, !.currentPage = 0, !.launchPromise = 0,
              !.pendingDialogs = <<>>, !.networkRequests = <<>>])

\* ElectronContext.reset()
Reset(S, by) ==
    Clear([SetState(S, "idle", by) EXCEPT
              !.app = 0, !.currentPage = 0, !.launchPromise = 0,
              !.pendingDialogs = <<>>, !.consoleMessages = <<>>,
              !.networkRequests = <<>>])

\* ElectronContext.setupPageHandlers(page): one more set of listeners on page.
\* Calling it with page == null throws (page.on of null).
SetupPageHandlers(S, w) == [S EXCEPT !.wired[w] = @ + 1]

\* ------------------------------------------------------------ the driver
\* Every process has a first window, named like the process, and may open a
\* second one.  A window is closed once its process has exited or the
\* application has closed it.
WinIds == 1..(2 * MaxRequests)
ProcOf(w) == ((w - 1) % MaxRequests) + 1
SecondWin(p) == p + MaxRequests

\* page.isClosed()
IsClosed(w) ==
    \/ procs[ProcOf(w)] # "alive"
    \/ w \in shut
    \/ (w > MaxRequests /\ w \notin opened)

\* this.app?.windows() ?? []: the open windows, in the order they were created.
Windows(a) ==
    IF a # 0 /\ procs[a] = "alive"
    THEN SelectSeq(<<a, SecondWin(a)>>, LAMBDA w : ~IsClosed(w))
    ELSE <<>>

NoCall == [pc |-> "none", kind |-> "none", role |-> "none", launch |-> 0,
           issuedIn |-> "none", err |-> NoErr, got |-> "none", gotIn |-> "none"]
NoLaunch == [pc |-> "none", err |-> NoErr, owner |-> 0]
NoClose == [pc |-> "none", target |-> 0, dir |-> 0]

Configs == {[isolated |-> i, userDataDir |-> 0] : i \in BOOLEAN}

Init ==
    /\ state = "idle"
    /\ launchPromise = 0
    /\ app = 0
    /\ currentPage = 0
    /\ tempUserDataDir = 0
    /\ pendingDialogs = <<>>
    /\ consoleMessages = <<>>
    /\ networkRequests = <<>>
    /\ currentSnapshot = NoSnapshot
    /\ refCounter = 0
    /\ config \in Configs
    /\ wired = [w \in WinIds |-> 0]
    /\ procs = [p \in LaunchIds |-> "none"]
    /\ dirs = {}
    /\ launches = [l \in LaunchIds |-> NoLaunch]
    /\ calls = [c \in CallIds |-> NoCall]
    /\ closes = [k \in CloseIds |-> NoClose]
    /\ clock = 0
    /\ lastRef = NoReturn
    /\ stateLog = <<>>
    /\ opened = {}
    /\ shut = {}
    /\ gens = <<>>
    /\ switched = FALSE
    /\ returned = NoResult
    /\ emitted = 0
    /\ capturing = 0
    /\ selecting = NoSelect
    /\ quitting = 0
    /\ acting = NoAct
    /\ boxes = {}
    /\ overlays = [w \in WinIds |-> 0]
    /\ shot = [i \in ShotIds |-> NoShot]
    /\ snapping = <<>>

\* ------------------------------------------------------------- bookkeeping
\* The record of a settled call, launch or close() is the value it returned:
\* it is visible in the state that follows the step in which it settled and
\* is forgotten by the next step.  So is the state in which a call was issued.
\* What a pending call is (ensureReady, getPage or getApp) is read only by its
\* continuation, and is drawn when the continuation runs.
CallsNow ==
    [c \in CallIds |->
        IF calls[c].pc \in {"resolved", "rejected"}
        THEN [NoCall EXCEPT !.pc = "returned"]
        ELSE [calls[c] EXCEPT !.issuedIn = "none"]]
LaunchesNow ==
    [l \in LaunchIds |->
        IF launches[l].pc \in {"resolved", "rejected"}
        THEN [NoLaunch EXCEPT !.pc = "settled"] ELSE launches[l]]
ClosesNow ==
    [k \in CloseIds |->
        IF closes[k].pc \in {"done", "rejected"}
        THEN [NoClose EXCEPT !.pc = "returned"] ELSE closes[k]]
Keep(names) ==
    /\ "calls" \in names => calls' = CallsNow
    /\ "launches" \in names => launches' = LaunchesNow
    /\ "closes" \in names => closes' = ClosesNow

\* --------------------------------------------------------- ensureReady()
\* First test of ensureReady: ready, a process handle, and the liveness
\* probe isAppClosed() (this.app.windows() throwing) says it is not closed.
IsReadyFast(S, probeClosed) == S.state = "ready" /\ S.app # 0 /\ ~probeClosed

\* Coalesces without the test: every call starts its own launch.
MutCoalesces(S) == FALSE

\* Second test of ensureReady: a launch is in flight, await it.
Coalesces(S) == S.state = "launching" /\ S.launchPromise # 0

\* Third test of ensureReady: reset before launching again.
NeedsReset(S) == S.state \in {"error", "closed"}

\* OutcomeState without the assignment of 'ready'.
MutOutcomeState(ok) == IF ok THEN "launching" ELSE "error"

\* The state the owner of a launch sets when the launch promise settles.
OutcomeState(ok) == IF ok THEN "ready" ELSE "error"

\* OwnerSettles without the finally block.
MutOwnerSettles(S, ok) == SetState(S, OutcomeState(ok), "ensureReady")

\* try/catch/finally of ensureReady, run by the owner when its launch settles.
OwnerSettles(S, ok) ==
    [SetState(S, OutcomeState(ok), "ensureReady") EXCEPT !.launchPromise = 0]

\* What a getPage() call found and did: the window that was tracked when it
\* ran, the window it returned (0 when it threw) and the sets of listeners
\* that window had before the call.
GotPage(S, w, kind) ==
    [op |-> "getPage", tracked |-> S.currentPage, kind |-> kind, page |-> w,
     sets |-> IF w = 0 THEN 0 ELSE S.wired[w]]

\* GetPageCont without the isClosed() test of the tracked window.
MutGetPageCont(S) ==
    IF S.currentPage = 0
    THEN [s |-> [S EXCEPT !.ret = GotPage(S, 0, "NoWindowError")],
          got |-> "NoWindowError"]
    ELSE [s |-> [S EXCEPT !.ret = GotPage(S, S.currentPage, "page")], got |-> "page"]

\* getPage() after its ensureReady() resolved.
GetPageCont(S) ==
    IF S.currentPage = 0 \/ IsClosed(S.currentPage)
    THEN LET ws == Windows(S.app) IN
         IF ws # <<>>
         THEN [s |-> SetupPageHandlers([S EXCEPT !.currentPage = ws[1],
                                                 !.ret = GotPage(S, ws[1], "page")],
                                       ws[1]),
               got |-> "page"]
         ELSE [s |-> [S EXCEPT !.ret = GotPage(S, 0, "NoWindowError")],
               got |-> "NoWindowError"]
    ELSE [s |-> [S EXCEPT !.ret = GotPage(S, S.currentPage, "page")], got |-> "page"]

\* getApp() after its ensureReady() resolved.
GetAppCont(S) ==
    IF S.app = 0 THEN [s |-> S, got |-> "AppNotReadyError"]
                 ELSE [s |-> S, got |-> "app"]

\* The continuation of call c once its ensureReady() has resolved: what it is
\* handed (or the error it gets), and the session state at that moment.
CallCont(P, c, kind) ==
    LET r == CASE kind = "getPage" -> GetPageCont(P.s)
               [] kind = "getApp"  -> GetAppCont(P.s)
               [] OTHER -> [s |-> P.s, got |-> "none"]
    IN  [s |-> r.s,
         c |-> [P.c EXCEPT ![c].got = r.got,
                           ![c].gotIn = IF r.got = "none" THEN "none" ELSE P.s.state]]

Min(A) == CHOOSE x \in A : \A y \in A : x <= y

\* The continuations of the calls in A, in the order the calls were issued
\* (the order in which they were registered on the promise).
RECURSIVE Resume(_, _, _)
Resume(P, A, kinds) ==
    IF A = {} THEN P
    ELSE LET c == Min(A) IN Resume(CallCont(P, c, kinds[c]), A \ {c}, kinds)

Awaiting(l) == {c \in CallIds : calls[c].pc = "awaiting" /\ calls[c].launch = l}

\* The launch promise of launch l settles: the owner's continuation runs
\* first, then the continuations of the calls coalesced onto the launch.
SettleLaunch(S, l, ok, e, kinds) ==
    LET A  == Awaiting(l)
        C1 == [c \in CallIds |->
                 IF c \in A
                 THEN [CallsNow[c] EXCEPT !.pc = IF ok THEN "resolved" ELSE "rejected",
                                       !.err = e, !.kind = kinds[c]]
                 ELSE CallsNow[c]]
        P1 == [s |-> OwnerSettles(S, ok), c |-> C1]
    IN  IF ok THEN Resume(P1, A, kinds) ELSE P1

FreeIds(f) == {i \in DOMAIN f : f[i].pc = "none"}
NextCall   == IF FreeIds(calls) = {} THEN 0 ELSE Min(FreeIds(calls))
NextLaunch == IF FreeIds(launches) = {} THEN 0 ELSE Min(FreeIds(launches))
NextClose  == IF FreeIds(closes) = {} THEN 0 ELSE Min(FreeIds(closes))

\* launch() creates a temporary user-data directory first.
UsesTempDir == config.isolated /\ config.userDataDir = 0

\* A tool handler calls ensureReady(), getPage() or getApp().  `exists` is
\* what resolveAppPath finds on disk, `probeClosed` what isAppClosed() says.
IssueCall(kind, exists, probeClosed) ==
    LET c  == NextCall
        S0 == Sess
        new == [NoCall EXCEPT !.issuedIn = state]
    IN
    /\ c # 0
    /\ probeClosed => (app # 0 /\ procs[app] = "exited")
    /\ UNCHANGED <<tempUserDataDir, config, procs, dirs, clock, lastRef, aux>>
    /\ Keep({"closes"})
    /\ IF IsReadyFast(S0, probeClosed)
       THEN \* return at once; the caller's continuation follows
            LET P == CallCont([s |-> S0,
                               c |-> [CallsNow EXCEPT ![c] =
                                        [new EXCEPT !.pc = "resolved", !.role = "fast",
                                                    !.kind = kind]]], c, kind)
            IN  /\ Commit(P.s)
                /\ calls' = P.c
                /\ Keep({"launches"})
       ELSE IF Coalesces(S0)
       THEN \* await this.launchPromise
            /\ calls' = [CallsNow EXCEPT ![c] =
                           [new EXCEPT !.pc = "awaiting", !.role = "coalesced",
                                       !.launch = launchPromise]]
            /\ Commit(S0)
            /\ Keep({"launches"})
       ELSE \* start a launch
            LET l  == NextLaunch
                S1 == IF NeedsReset(S0) THEN Reset(S0, "ensureReady") ELSE S0
                S2 == [SetState(S1, "launching", "ensureReady") EXCEPT !.launchPromise = l]
                own == [new EXCEPT !.role = "owner", !.launch = l]
            IN
            /\ l # 0
            /\ IF exists
               THEN \* launch() runs up to its first await
                    /\ launches' = [LaunchesNow EXCEPT ![l] =
                           [pc |-> IF UsesTempDir THEN "mkdtemp" ELSE "electronLaunch",
                            err |-> NoErr, owner |-> c]]
                    /\ calls' = [CallsNow EXCEPT ![c] = [own EXCEPT !.pc = "awaiting"]]
                    /\ Commit(S2)
               ELSE \* resolveAppPath throws: the promise is born rejected
                    /\ launches' = [LaunchesNow EXCEPT ![l] =
                           [pc |-> "rejected", err |-> PlainError(TRUE), owner |-> c]]
                    /\ calls' = [CallsNow EXCEPT ![c] =
                           [own EXCEPT !.pc = "rejected", !.err = PlainError(TRUE),
                                       !.kind = kind]]
                    /\ Commit(OwnerSettles(S2, FALSE))

\* ---------------------------------------------------------------- launch()
\* A launch settles: commit the session and the calls that awaited it.
Settle(S, l, ok, e) ==
    \E kinds \in [Awaiting(l) -> CallKinds] :
    LET P == SettleLaunch(S, l, ok, e, kinds) IN
    /\ Commit(P.s)
    /\ calls' = P.c
    /\ launches' = [LaunchesNow EXCEPT ![l].pc = IF ok THEN "resolved" ELSE "rejected",
                                    ![l].err = e]

\* fs.promises.mkdtemp settles (it is outside the try block of launch).
LaunchMkdtemp(l, ok) ==
    /\ launches[l].pc = "mkdtemp"
    /\ UNCHANGED <<config, procs, clock, lastRef, aux>>
    /\ Keep({"closes"})
    /\ IF ok
       THEN /\ tempUserDataDir' = l
            /\ dirs' = dirs \cup {l}
            /\ launches' = [LaunchesNow EXCEPT ![l].pc = "electronLaunch"]
            /\ Commit(Sess)
            /\ Keep({"calls"})
       ELSE /\ Settle(Sess, l, FALSE, PlainError(FALSE))
            /\ UNCHANGED <<tempUserDataDir, dirs>>

\* electron.launch settles; on success this.app is set and the close
\* listener of the process is registered (setupEventHandlers).
LaunchSpawn(l, ok) ==
    /\ launches[l].pc = "electronLaunch"
    /\ UNCHANGED <<tempUserDataDir, config, dirs, clock, lastRef, aux>>
    /\ Keep({"closes"})
    /\ IF ok
       THEN /\ procs' = [procs EXCEPT ![l] = "alive"]
            /\ launches' = [LaunchesNow EXCEPT ![l].pc = "firstWindow"]
            /\ Commit([Sess EXCEPT !.app = l])
            /\ Keep({"calls"})
       ELSE /\ Settle(Sess, l, FALSE, LaunchError(TRUE))
            /\ UNCHANGED procs

\* app.firstWindow() settles; it can only succeed while the process lives.
LaunchFirstWindow(l, ok) ==
    /\ launches[l].pc = "firstWindow"
    /\ ok => procs[l] = "alive"
    /\ UNCHANGED <<tempUserDataDir, config, procs, dirs, clock, lastRef, aux>>
    /\ Keep({"closes"})
    /\ IF ok
       THEN /\ launches' = [LaunchesNow EXCEPT ![l].pc = "loadState"]
            /\ Commit([Sess EXCEPT !.currentPage = l])
            /\ Keep({"calls"})
       ELSE Settle(Sess, l, FALSE, LaunchError(TRUE))

\* waitForLoadState settles; then setupPageHandlers(this.currentPage), which
\* throws inside the try block when this.currentPage has become null.
LaunchLoadState(l, ok) ==
    /\ launches[l].pc = "loadState"
    /\ ok => procs[l] = "alive"
    /\ UNCHANGED <<tempUserDataDir, config, procs, dirs, clock, lastRef, aux>>
    /\ Keep({"closes"})
    /\ IF ok /\ currentPage # 0
       THEN Settle(SetupPageHandlers(Sess, currentPage), l, TRUE, NoErr)
       ELSE Settle(Sess, l, FALSE, LaunchError(TRUE))

\* -------------------------------------------------- process close event
\* OnAppClose without refManager.clear().
MutOnAppClose(S) == [SetState(S, "closed", "event") EXCEPT !.currentPage = 0]

\* The 'close' listener registered by setupEventHandlers.
OnAppClose(S) ==
    Clear([SetState(S, "closed", "event") EXCEPT !.currentPage = 0])

\* Process p exits (crash, quit, or app.close() taking effect).
ProcessExit(p) ==
    /\ procs[p] = "alive"
    /\ procs' = [procs EXCEPT ![p] = "exited"]
    /\ Commit(OnAppClose(Sess))
    /\ UNCHANGED <<tempUserDataDir, config, dirs, clock, lastRef, aux>>
    /\ Keep({"launches", "calls", "closes"})

\* ------------------------------------------------------------------ close()
\* Swallowed with the error thrown on to the caller of close().
MutSwallowed(ok) == ok

\* try { await ... } catch { /* ignore */ }: close() goes on to its next
\* statement whether the awaited call resolved (ok) or rejected.
Swallowed(ok) == TRUE

\* close() is left by an error: its promise rejects, nothing is reset.
CloseThrows(k) ==
    /\ closes' = [ClosesNow EXCEPT ![k].pc = "rejected"]
    /\ Commit(Sess)

\* close() from the temp-directory step on: await rm when a directory is
\* recorded, else reset at once.
CloseAfterApp(k, target) ==
    IF tempUserDataDir # 0
    THEN /\ closes' = [ClosesNow EXCEPT ![k] =
                [pc |-> "rm", target |-> target, dir |-> tempUserDataDir]]
         /\ Commit(Sess)
    ELSE /\ closes' = [ClosesNow EXCEPT ![k] =
                [pc |-> "done", target |-> target, dir |-> 0]]
         /\ Commit(Reset(Sess, "close"))

\* close() is called.
CloseCall ==
    LET k == NextClose IN
    /\ k # 0
    /\ UNCHANGED <<tempUserDataDir, config, procs, dirs, clock, lastRef, aux>>
    /\ Keep({"launches", "calls"})
    /\ IF app # 0
       THEN /\ closes' = [ClosesNow EXCEPT ![k] =
                   [pc |-> "appClose", target |-> app, dir |-> 0]]
            /\ Commit(Sess)
       ELSE CloseAfterApp(k, 0)

\* this.app.close() settles: resolved once the process has exited, or
\* rejected (the error is ignored).
CloseAppDone(k, ok) ==
    /\ closes[k].pc = "appClose"
    /\ ok => procs[closes[k].target] = "exited"
    /\ UNCHANGED <<tempUserDataDir, config, procs, dirs, clock, lastRef, aux>>
    /\ Keep({"launches", "calls"})
    /\ IF Swallowed(ok) THEN CloseAfterApp(k, closes[k].target) ELSE CloseThrows(k)

\* fs.promises.rm settles (an error is ignored); then reset().
CloseRmDone(k, ok) ==
    /\ closes[k].pc = "rm"
    /\ dirs' = IF ok THEN dirs \ {closes[k].dir} ELSE dirs
    /\ IF Swallowed(ok)
       THEN /\ closes' = [ClosesNow EXCEPT ![k].pc = "done"]
            /\ Commit(Reset(Sess, "close"))
       ELSE CloseThrows(k)
    /\ UNCHANGED <<tempUserDataDir, config, procs, clock, lastRef, aux>>
    /\ Keep({"launches", "calls"})

\* ------------------------------------------------------------ page events
\* One listener of a capped log: push, then shift when over capacity.
PushCapped(buf, e) ==
    LET b == Append(buf, e) IN IF Len(b) > BufferCap THEN Tail(b) ELSE b

\* Every registered set of listeners on the window handles the event.
RECURSIVE PushN(_, _, _, _)
PushN(buf, e, n, capped) ==
    IF n = 0 THEN buf
    ELSE PushN(IF capped THEN PushCapped(buf, e) ELSE Append(buf, e), e, n - 1, capped)

Recorded == Len(pendingDialogs) + Len(consoleMessages) + Len(networkRequests)

\* Window w emits a dialog, a console message or a network request.
PageEmit(w, kind) ==
    /\ wired[w] > 0
    /\ ~IsClosed(w)
    /\ Recorded < MaxEvents
    /\ LET S == Sess IN
       Commit(CASE kind = "dialog" ->
                     [S EXCEPT !.pendingDialogs =
                         PushN(@, [type |-> "alert", message |-> w], wired[w], FALSE)]
                [] kind = "console" ->
                     [S EXCEPT !.consoleMessages =
                         PushN(@, [type |-> "log", text |-> w], wired[w], TRUE)]
                [] OTHER ->
                     [S EXCEPT !.networkRequests =
                         PushN(@, [url |-> w, method |-> "GET", status |-> 0],
                               wired[w], TRUE)])
    /\ UNCHANGED <<tempUserDataDir, config, procs, dirs, clock, lastRef, aux>>
    /\ Keep({"launches", "calls", "closes"})

\* ------------------------------------------------------------- RefManager
\* `snap_${Date.now()}_${random}`
SnapshotId(now, r) == <<now, r>>

\* RefManager.startNewSnapshot()
StartNewSnapshot(S, now, r) ==
    [S EXCEPT !.currentSnapshot = [active |-> TRUE, id |-> SnapshotId(now, r),
                                   timestamp |-> now, refs |-> <<>>],
              !.refCounter = 0]

\* The selector computed at registration.
BuildSelector(ref, role, name, testId) ==
    IF role # "" /\ name # "" THEN <<"role+name", role, name>>
    ELSE IF testId # "" THEN <<"testid", testId>>
    ELSE IF role # "" THEN <<"role", role>>
    ELSE <<"data-ref", ref>>

\* Map.set: replace the value of an existing key in place, else append.
MapSet(m, key, val) ==
    IF \E i \in 1..Len(m) : m[i].ref = key
    THEN [i \in 1..Len(m) |-> IF m[i].ref = key THEN val ELSE m[i]]
    ELSE Append(m, val)

\* NextRef with a pre-increment: `e${++this.refCounter}`.
MutNextRef(counter) == RefString(counter + 1)

\* The ref handed out by registerElement: `e${this.refCounter++}`.
NextRef(counter) == RefString(counter)

\* RefManager.registerElement(role, name, testId) with an active snapshot.
RegisterElement(S, role, name, testId) ==
    LET ref == NextRef(S.refCounter) IN
    [S EXCEPT !.refCounter = @ + 1,
              !.currentSnapshot.refs =
                  MapSet(@, ref, [ref |-> ref, role |-> role, name |-> name,
                                  testId |-> testId,
                                  selector |-> BuildSelector(ref, role, name, testId)])]

\* RefManager.getAllRefs()
GetAllRefs == IF currentSnapshot.active THEN currentSnapshot.refs ELSE <<>>

\* RefManager.hasSnapshot()
HasSnapshot == currentSnapshot.active

\* RegisterOrThrow without the test for an active snapshot.
MutRegisterOrThrow(S, role, name, testId) ==
    [s |-> RegisterElement(S, role, name, testId), ret |-> NextRef(S.refCounter)]

\* RefManager.registerElement(role, name, testId): it throws, and changes
\* nothing, when no snapshot is active.
RegisterOrThrow(S, role, name, testId) ==
    IF ~S.currentSnapshot.active
    THEN [s |-> S, ret |-> <<"throw", 0>>]
    ELSE [s |-> RegisterElement(S, role, name, testId), ret |-> NextRef(S.refCounter)]

\* The optional argument expectedSnapshotId: left out, the empty string, or
\* a snapshot id.
Undefined   == <<>>
EmptyString == <<"">>
Truthy(x) == x # Undefined /\ x # EmptyString

\* IsStale without the comparison.
MutIsStale(snap, expected) == FALSE

\* Second test of getElement: an expected id is given and is not the id of
\* the current snapshot.
IsStale(snap, expected) == Truthy(expected) /\ expected # snap.id

\* this.currentSnapshot.refs.get(ref): the position of the entry, 0 if none.
FindRef(snap, ref) ==
    IF \E i \in 1..Len(snap.refs) : snap.refs[i].ref = ref
    THEN CHOOSE i \in 1..Len(snap.refs) : snap.refs[i].ref = ref
    ELSE 0

NoElement == [ref |-> <<"none", 0>>, role |-> "", name |-> "", testId |-> "",
              selector |-> <<"none">>]

Threw(op, ref, expected, error) ==
    [op |-> op, ref |-> ref, expected |-> expected, kind |-> error,
     element |-> NoElement, locator |-> <<"none">>]

\* GetElement with the stale test made before the test for a snapshot.
MutGetElement(snap, ref, expected) ==
    IF IsStale(snap, expected)
    THEN Threw("getElement", ref, expected, "StaleRefError")
    ELSE IF ~snap.active \/ FindRef(snap, ref) = 0
    THEN Threw("getElement", ref, expected, "RefNotFoundError")
    ELSE [Threw("getElement", ref, expected, "element") EXCEPT
             !.element = snap.refs[FindRef(snap, ref)]]

\* RefManager.getElement(ref, expectedSnapshotId)
GetElement(snap, ref, expected) ==
    IF ~snap.active
    THEN Threw("getElement", ref, expected, "RefNotFoundError")
    ELSE IF IsStale(snap, expected)
    THEN Threw("getElement", ref, expected, "StaleRefError")
    ELSE IF FindRef(snap, ref) = 0
    THEN Threw("getElement", ref, expected, "RefNotFoundError")
    ELSE [Threw("getElement", ref, expected, "element") EXCEPT
             !.element = snap.refs[FindRef(snap, ref)]]

\* ResolveToLocator that always uses the selector stored at registration.
MutResolveToLocator(snap, page, ref) ==
    LET g == GetElement(snap, ref, Undefined) IN
    IF g.kind # "element" THEN [g EXCEPT !.op = "resolveToLocator"]
    ELSE [g EXCEPT !.op = "resolveToLocator",
                   !.locator = <<"locator", page, g.element.selector>>]

\* RefManager.resolveToLocator(page, ref): getElement(ref), then the locator
\* built on the page.
ResolveToLocator(snap, page, ref) ==
    LET g == GetElement(snap, ref, Undefined)
        e == g.element
    IN  IF g.kind # "element" THEN [g EXCEPT !.op = "resolveToLocator"]
        ELSE [g EXCEPT !.op = "resolveToLocator",
                       !.locator =
                          IF e.role # "" /\ e.name # ""
                          THEN <<"getByRole", page, e.role, e.name>>
                          ELSE IF e.testId # ""
                          THEN <<"getByTestId", page, e.testId>>
                          ELSE <<"locator", page, e.selector>>]

\* captureSnapshot(page) up to its first await, on a page that getPage()
\* has just handed to the browser_snapshot handler.
CaptureSnapshotStart(r) ==
    /\ state = "ready"
    /\ currentPage # 0
    /\ ~IsClosed(currentPage)
    /\ Commit(StartNewSnapshot(Sess, clock, r))
    /\ UNCHANGED <<tempUserDataDir, config, procs, dirs, clock, lastRef, aux>>
    /\ Keep({"launches", "calls", "closes"})

\* ------------------------------------------------- session specification
\* Requests made so far.
Issued ==
    Cardinality({c \in CallIds : calls[c].pc # "none"})
      + Cardinality({k \in CloseIds : closes[k].pc # "none"})

Next ==
    \/ \E kind \in CallKinds, exists \in BOOLEAN, probeClosed \in BOOLEAN :
          Issued < MaxRequests /\ IssueCall(kind, exists, probeClosed)
    \/ \E l \in LaunchIds, ok \in BOOLEAN : LaunchMkdtemp(l, ok)
    \/ \E l \in LaunchIds, ok \in BOOLEAN : LaunchSpawn(l, ok)
    \/ \E l \in LaunchIds, ok \in BOOLEAN : LaunchFirstWindow(l, ok)
    \/ \E l \in LaunchIds, ok \in BOOLEAN : LaunchLoadState(l, ok)
    \/ \E p \in LaunchIds : ProcessExit(p)
    \/ Issued < MaxRequests /\ CloseCall
    \/ \E k \in CloseIds, ok \in BOOLEAN : CloseAppDone(k, ok)
    \/ \E k \in CloseIds, ok \in BOOLEAN : CloseRmDone(k, ok)

Spec == Init /\ [][Next]_vars

\* ------------------------------- session specification with page events
NextData ==
    \/ \E kind \in CallKinds, exists \in BOOLEAN, probeClosed \in BOOLEAN :
          Issued < DataRequests /\ IssueCall(kind, exists, probeClosed)
    \/ \E l \in LaunchIds, ok \in BOOLEAN : LaunchMkdtemp(l, ok)
    \/ \E l \in LaunchIds, ok \in BOOLEAN : LaunchSpawn(l, ok)
    \/ \E l \in LaunchIds, ok \in BOOLEAN : LaunchFirstWindow(l, ok)
    \/ \E l \in LaunchIds, ok \in BOOLEAN : LaunchLoadState(l, ok)
    \/ \E p \in LaunchIds : ProcessExit(p)
    \/ Issued < DataRequests /\ CloseCall
    \/ \E k \in CloseIds, ok \in BOOLEAN : CloseAppDone(k, ok)
    \/ \E k \in CloseIds, ok \in BOOLEAN : CloseRmDone(k, ok)
    \/ \E w \in LaunchIds, kind \in {"dialog", "console", "request"} : PageEmit(w, kind)
    \/ \E r \in 1..NumRand : CaptureSnapshotStart(r)

SpecData == Init /\ [][NextData]_vars

TypeOK ==
    /\ state \in States
    /\ launchPromise \in {0} \cup LaunchIds
    /\ app \in {0} \cup LaunchIds
    /\ currentPage \in {0} \cup LaunchIds

\* -------------------------------------------- reference-table specification
Roles   == {"", "button"}
Names   == {"", "Submit"}
TestIds == {"", "submit-btn"}

SessionIdle ==
    UNCHANGED <<tempUserDataDir, config, procs, dirs, launches, calls, closes, aux>>

\* refManager.startNewSnapshot()
RefStart(r) ==
    /\ Commit(StartNewSnapshot(Sess, clock, r))
    /\ lastRef' = NoReturn
    /\ UNCHANGED clock
    /\ SessionIdle

\* refManager.registerElement(role, name, testId); it throws, and changes
\* nothing, when no snapshot is active.
RefRegister(role, name, testId) ==
    /\ refCounter < MaxRefs
    /\ LET R == RegisterOrThrow(Sess, role, name, testId) IN
       /\ Commit(R.s)
       /\ lastRef' = [ret |-> R.ret,
                      k |-> IF R.ret[1] = "throw" THEN 0 ELSE lastRef.k + 1]
    /\ UNCHANGED clock
    /\ SessionIdle

\* refManager.clear()
RefClear ==
    /\ Commit(Clear(Sess))
    /\ lastRef' = NoReturn
    /\ UNCHANGED clock
    /\ SessionIdle

\* Date.now() advances.
Tick ==
    /\ clock < MaxClock
    /\ clock' = clock + 1
    /\ Commit(Sess)
    /\ UNCHANGED lastRef
    /\ SessionIdle

NextRefs ==
    \/ \E r \in 1..NumRand : RefStart(r)
    \/ \E role \in Roles, name \in Names, testId \in TestIds :
          RefRegister(role, name, testId)
    \/ RefClear
    \/ Tick

SpecRefs == Init /\ [][NextRefs]_vars

\* ------------------------------ reference-table specification with lookups
\* The same calls with the history of generations recorded, and the lookups.
NewGen(id) == [id |-> id, n |-> 0]

\* The history after a generation is started: the one before it is kept.
Started(g, id) ==
    Append(IF Len(g) = 2 THEN Tail(g) ELSE g, NewGen(id))

\* One more ref issued in the newest generation.
Issue(g) == IF g = <<>> THEN g ELSE [g EXCEPT ![Len(g)].n = @ + 1]

\* The ref strings a caller may hold: those issued, one never issued, and
\* one that is not of the form e<n>.
RefInputs == {RefString(n) : n \in 0..GenRefs} \cup {<<"x", 0>>}

\* The expected ids a caller may pass: none, the empty string, the id of a
\* generation it has seen, or an id that was never returned.
ExpectedInputs ==
    {Undefined, EmptyString, SnapshotId(MaxClock + 1, 1)}
       \cup {gens[i].id : i \in 1..Len(gens)}

\* refManager.startNewSnapshot()
GenStart(r) ==
    /\ Commit(StartNewSnapshot(Sess, clock, r))
    /\ gens' = Started(gens, SnapshotId(clock, r))
    /\ lastRef' = NoReturn
    /\ UNCHANGED <<tempUserDataDir, config, procs, dirs, launches, calls, closes,
                   clock, opened, shut, switched, emitted, capturing, selecting, quitting, boxes, ext>>

\* refManager.registerElement(role, name, testId)
GenRegister(role, name, testId) ==
    /\ refCounter < GenRefs
    /\ LET R == RegisterOrThrow(Sess, role, name, testId) IN
       /\ Commit(R.s)
       /\ lastRef' = [ret |-> R.ret,
                      k |-> IF R.ret[1] = "throw" THEN 0 ELSE lastRef.k + 1]
       /\ gens' = IF R.ret[1] = "throw" THEN gens ELSE Issue(gens)
    /\ UNCHANGED <<tempUserDataDir, config, procs, dirs, launches, calls, closes,
                   clock, opened, shut, switched, emitted, capturing, selecting, quitting, boxes, ext>>

\* refManager.clear()
GenClear ==
    /\ Commit(Clear(Sess))
    /\ lastRef' = NoReturn
    /\ UNCHANGED <<tempUserDataDir, config, procs, dirs, launches, calls, closes,
                   clock, opened, shut, gens, switched, emitted, capturing, selecting, quitting, boxes, ext>>

\* refManager.getElement(ref, expected)
GenGetElement(ref, expected) ==
    /\ Commit([Sess EXCEPT !.ret = GetElement(currentSnapshot, ref, expected)])
    /\ UNCHANGED lastRef
    /\ UNCHANGED clock
    /\ SessionIdle

\* refManager.resolveToLocator(page, ref)
GenResolve(ref) ==
    /\ Commit([Sess EXCEPT !.ret = ResolveToLocator(currentSnapshot, 1, ref)])
    /\ UNCHANGED lastRef
    /\ UNCHANGED clock
    /\ SessionIdle

NextGen ==
    \/ \E r \in 1..NumRand : GenStart(r)
    \/ GenRegister("button", "Submit", "")
    \/ GenClear
    \/ \E ref \in RefInputs, expected \in ExpectedInputs : GenGetElement(ref, expected)
    \/ \E ref \in RefInputs : GenResolve(ref)

\* The table is used on its own: the session stays as constructed.  All
\* calls of a run are made within one millisecond, so that only the random
\* suffix tells the ids of two generations apart.
InitGen == Init /\ ~config.isolated

SpecGen == InitGen /\ [][NextGen]_vars

\* ------------------------- reference-table specification with locators
\* Elements of every combination of role, name and test id are registered
\* and resolved.
NextLoc ==
    \/ GenStart(1)
    \/ \E role \in Roles, name \in Names, testId \in TestIds :
          GenRegister(role, name, testId)
    \/ \E ref \in RefInputs : GenResolve(ref)

SpecLoc == InitGen /\ [][NextLoc]_vars

\* ---------------------------------------------------- tools on a session
\* The session after its first launch has succeeded: process 1 runs, its
\* first window is the active window and has one set of listeners.  The
\* three buffers hold what the window has emitted since.
ReadySession(dialogs, console, network) ==
    /\ state = "ready"
    /\ launchPromise = 0
    /\ app = 1
    /\ currentPage = 1
    /\ config \in Configs
    /\ tempUserDataDir = IF UsesTempDir THEN 1 ELSE 0
    /\ dirs = IF UsesTempDir THEN {1} ELSE {}
    /\ pendingDialogs = dialogs
    /\ consoleMessages = console
    /\ networkRequests = network
    /\ currentSnapshot = NoSnapshot
    /\ refCounter = 0
    /\ wired = [w \in WinIds |-> IF w = 1 THEN 1 ELSE 0]
    /\ procs = [p \in LaunchIds |-> IF p = 1 THEN "alive" ELSE "none"]
    /\ launches = [l \in LaunchIds |->
                      IF l = 1 THEN [NoLaunch EXCEPT !.pc = "settled"] ELSE NoLaunch]
    /\ calls = [c \in CallIds |->
                   IF c = 1 THEN [NoCall EXCEPT !.pc = "returned"] ELSE NoCall]
    /\ closes = [k \in CloseIds |-> NoClose]
    /\ clock = 0
    /\ lastRef = NoReturn
    /\ stateLog = <<>>
    /\ opened = {}
    /\ shut = {}
    /\ gens = <<>>
    /\ switched = FALSE
    /\ returned = NoResult
    /\ emitted = 0
    /\ capturing = 0
    /\ selecting = NoSelect
    /\ quitting = 0
    /\ acting = NoAct
    /\ boxes = {}
    /\ overlays = [w \in WinIds |-> 0]
    /\ shot = [i \in ShotIds |-> NoShot]
    /\ snapping = <<>>

InitReady == ReadySession(<<>>, <<>>, <<>>)

\* A tool handler whose ensureReady() returns at once.
ReadyNow == IsReadyFast(Sess, FALSE)

\* The application opens its second window.
WindowOpen(p) ==
    /\ procs[p] = "alive"
    /\ SecondWin(p) \notin opened
    /\ opened' = opened \cup {SecondWin(p)}
    /\ Commit(Sess)
    /\ UNCHANGED <<tempUserDataDir, config, procs, dirs, clock, lastRef,
                   shut, gens, switched, emitted, capturing, selecting, quitting, boxes, ext>>
    /\ Keep({"launches", "calls", "closes"})

\* The application closes window w; the 'close' listener of the page, if
\* setupPageHandlers has registered one, forgets the active window.
PageClose(w) ==
    /\ ~IsClosed(w)
    /\ shut' = shut \cup {w}
    /\ Commit(IF wired[w] > 0 /\ currentPage = w
              THEN [Sess EXCEPT !.currentPage = 0] ELSE Sess)
    /\ UNCHANGED <<tempUserDataDir, config, procs, dirs, clock, lastRef,
                   opened, gens, switched, emitted, capturing, selecting, quitting, boxes, ext>>
    /\ Keep({"launches", "calls", "closes"})

\* A number passed as selector.index: whole, or whole + 1/2 when half is
\* set (the tool schema asks for a number, and nothing checks the arguments).
Num(whole, half) == [whole |-> whole, half |-> half]
NumLess(x, n) == x.whole < n        \* x < n for an integer n
NumAtLeast(x, n) == x.whole >= n    \* x >= n for an integer n

\* Window titles: a string is the sequence of its characters.
Title(w) == IF w <= MaxRequests THEN <<"a", "b">> ELSE <<"b", "c">>

\* String.prototype.includes
Includes(t, x) ==
    \E i \in 0..(Len(t) - Len(x)) : SubSeq(t, i + 1, i + Len(x)) = x

\* title === selector.title || title.includes(selector.title)
TitleMatches(t, x) == t = x \/ Includes(t, x)

\* The selectors of selectWindow: an index, a title, both or neither.
Selectors ==
    {[hasIndex |-> FALSE, index |-> Num(0, FALSE), hasTitle |-> FALSE, title |-> <<>>]}
       \cup {[hasIndex |-> TRUE, index |-> x, hasTitle |-> FALSE, title |-> <<>>] :
                x \in {Num(i, FALSE) : i \in (0 - 1)..2} \cup {Num(0, TRUE)}}
       \cup {[hasIndex |-> FALSE, index |-> Num(0, FALSE), hasTitle |-> TRUE, title |-> t] :
                t \in {<<>>, <<"b">>, <<"b", "c">>, <<"c", "a">>}}
       \cup {[hasIndex |-> TRUE, index |-> Num(2, FALSE), hasTitle |-> TRUE,
              title |-> <<"b">>]}

\* The selectors that selectWindow settles without awaiting a title.
SyncSelectors == {sel \in Selectors : sel.hasIndex \/ sel.title = <<>>}

\* What a selectWindow call was given, found and did: the list of windows it
\* read, the active window before the block in which it settled, and how
\* it settled ("ok", or the error it threw).
Selected(S, sel, ws, kind) ==
    [op |-> "selectWindow", sel |-> sel, ws |-> ws, before |-> S.currentPage,
     kind |-> kind]

\* this.currentPage = win; this.setupPageHandlers(win); return
SelectWin(S, sel, ws, w) ==
    SetupPageHandlers([S EXCEPT !.currentPage = w, !.ret = Selected(S, sel, ws, "ok")], w)

\* selectWindow(selector) after its ensureReady() resolved, up to its end or
\* to its first await ("await").  An index that is in range and is not an
\* integer reads windows[index], which is undefined: currentPage becomes
\* undefined, and setupPageHandlers(undefined) throws a TypeError.
SelectWindowCont(S, sel) ==
    LET ws == Windows(S.app)
        thrown == [s |-> [S EXCEPT !.ret = Selected(S, sel, ws, "Error")], err |-> "Error"]
    IN
    IF sel.hasIndex
    THEN IF NumLess(sel.index, 0) \/ NumAtLeast(sel.index, Len(ws))
         THEN thrown
         ELSE IF sel.index.half
         THEN [s |-> [S EXCEPT !.currentPage = 0,
                               !.ret = Selected(S, sel, ws, "TypeError")],
               err |-> "TypeError"]
         ELSE [s |-> SelectWin(S, sel, ws, ws[sel.index.whole + 1]), err |-> "none"]
    ELSE IF sel.hasTitle /\ sel.title # <<>>
    THEN IF ws = <<>>
         THEN thrown
         ELSE [s |-> S, err |-> "await"]
    ELSE thrown

\* selectWindow has changed the active window after a completed snapshot.
Switches(R) ==
    R.err = "none" /\ HasSnapshot /\ capturing = 0 /\ R.s.currentPage # currentPage

\* browser_tabs with action select, up to the return of selectWindow or to
\* its first await.
ToolSelect(sel) ==
    /\ ReadyNow
    /\ selecting.pc = "none"
    /\ LET R == SelectWindowCont(Sess, sel) IN
       /\ \A w \in WinIds : R.s.wired[w] <= MaxWired
       /\ Commit(R.s)
       /\ switched' = (switched \/ Switches(R))
       /\ selecting' = IF R.err = "await"
                       THEN [pc |-> "title", sel |-> sel, ws |-> Windows(app), pos |-> 1]
                       ELSE NoSelect
    /\ UNCHANGED <<tempUserDataDir, config, procs, dirs, clock, lastRef,
                   opened, shut, gens, emitted, capturing, quitting, boxes, ext>>
    /\ Keep({"launches", "calls", "closes"})

\* The title loop of selectWindow: win.title() of the window at hand
\* settles (it rejects on a closed window, which reads as the empty title).
SelectTitleCont(S, q) ==
    LET w == q.ws[q.pos]
        t == IF IsClosed(w) THEN <<>> ELSE Title(w)
    IN  IF TitleMatches(t, q.sel.title)
        THEN [s |-> SelectWin(S, q.sel, q.ws, w), err |-> "none"]
        ELSE IF q.pos < Len(q.ws)
        THEN [s |-> S, err |-> "await"]
        ELSE [s |-> [S EXCEPT !.ret = Selected(S, q.sel, q.ws, "Error")],
              err |-> "Error"]

SelectTitle ==
    /\ selecting.pc = "title"
    /\ LET R == SelectTitleCont(Sess, selecting) IN
       /\ \A w \in WinIds : R.s.wired[w] <= MaxWired
       /\ Commit(R.s)
       /\ switched' = (switched \/ Switches(R))
       /\ selecting' = IF R.err = "await"
                       THEN [selecting EXCEPT !.pos = @ + 1] ELSE NoSelect
    /\ UNCHANGED <<tempUserDataDir, config, procs, dirs, clock, lastRef,
                   opened, shut, gens, emitted, capturing, quitting, boxes, ext>>
    /\ Keep({"launches", "calls", "closes"})

\* browser_snapshot: getPage() hands the active window over at once and
\* captureSnapshot(page) runs up to its first await.
ToolSnapshotStart(r) ==
    /\ ReadyNow
    /\ currentPage # 0
    /\ ~IsClosed(currentPage)
    /\ capturing < MaxCaptures
    /\ Commit(StartNewSnapshot(Sess, clock, r))
    /\ switched' = FALSE
    /\ capturing' = capturing + 1
    /\ lastRef' = NoReturn
    /\ boxes' = {}
    /\ UNCHANGED <<tempUserDataDir, config, procs, dirs, clock,
                   opened, shut, gens, emitted, selecting, quitting, ext>>
    /\ Keep({"launches", "calls", "closes"})

\* processNodes on n nodes that have a role: it registers them in turn and
\* is left by the first registerElement that throws.  P is the table and
\* what the last registerElement call returned.
RECURSIVE RegisterNodes(_, _)
RegisterNodes(P, n) ==
    IF n = 0 THEN P
    ELSE LET R == RegisterOrThrow(P.s, "button", "Submit", "") IN
         IF R.ret[1] = "throw"
         THEN [s |-> P.s, last |-> [ret |-> R.ret, k |-> 0]]
         ELSE RegisterNodes([s |-> R.s,
                             last |-> [ret |-> R.ret, k |-> P.last.k + 1]], n - 1)

\* currentBoundingBoxes after processNodes has taken the session from S to
\* T: every node registered has a rectangle (an element of no width and no
\* height gets no entry) and is entered under the ref it was given.
ProcessedBoxes(S, T) ==
    boxes \cup {NextRef(c) : c \in S.refCounter .. T.refCounter - 1}

\* A suspended captureSnapshot gets the tree of the page (n nodes) and
\* runs to its end.
ToolSnapshotNodes(n) ==
    /\ capturing > 0
    /\ refCounter + n <= GenRefs
    /\ LET P == RegisterNodes([s |-> Sess, last |-> lastRef], n) IN
       /\ Commit(P.s)
       /\ lastRef' = P.last
       /\ boxes' = ProcessedBoxes(Sess, P.s)
    /\ capturing' = capturing - 1
    /\ UNCHANGED <<tempUserDataDir, config, procs, dirs, clock,
                   opened, shut, gens, switched, emitted, selecting, quitting, ext>>
    /\ Keep({"launches", "calls", "closes"})

\* An interaction tool (browser_click, ...): getPage() hands the active
\* window over at once, then refManager.resolveToLocator(page, ref).
ToolResolve(ref) ==
    /\ ReadyNow
    /\ currentPage # 0
    /\ ~IsClosed(currentPage)
    /\ Commit([Sess EXCEPT !.ret = ResolveToLocator(currentSnapshot, currentPage, ref)])
    /\ UNCHANGED <<tempUserDataDir, config, procs, dirs, clock, lastRef, aux>>
    /\ Keep({"launches", "calls", "closes"})

\* --------------------------------------------------- window specification
NextWin ==
    \/ \E p \in LaunchIds : WindowOpen(p)
    \/ \E w \in WinIds : PageClose(w)
    \/ \E sel \in Selectors : ToolSelect(sel)
    \/ SelectTitle
    \/ \E r \in 1..NumRand : ToolSnapshotStart(r)
    \/ \E n \in 0..GenRefs : ToolSnapshotNodes(n)
    \/ \E ref \in RefInputs : ToolResolve(ref)

InitWin == InitReady /\ ~config.isolated

SpecWin == InitWin /\ [][NextWin]_vars

\* ------------------------------- session specification with snapshots
NextSnap ==
    \/ \E kind \in CallKinds, exists \in BOOLEAN, probeClosed \in BOOLEAN :
          Issued <= WinRequests /\ IssueCall(kind, exists, probeClosed)
    \/ \E l \in LaunchIds, ok \in BOOLEAN : LaunchMkdtemp(l, ok)
    \/ \E l \in LaunchIds, ok \in BOOLEAN : LaunchSpawn(l, ok)
    \/ \E l \in LaunchIds, ok \in BOOLEAN : LaunchFirstWindow(l, ok)
    \/ \E l \in LaunchIds, ok \in BOOLEAN : LaunchLoadState(l, ok)
    \/ \E p \in LaunchIds : ProcessExit(p)
    \/ Issued <= WinRequests /\ CloseCall
    \/ \E k \in CloseIds, ok \in BOOLEAN : CloseAppDone(k, ok)
    \/ \E k \in CloseIds, ok \in BOOLEAN : CloseRmDone(k, ok)
    \/ ToolSnapshotStart(1)
    \/ \E n \in 0..GenRefs : ToolSnapshotNodes(n)
    \/ \E ref \in RefInputs : ToolResolve(ref)

SpecSnap == InitReady /\ [][NextSnap]_vars

\* ------------------------------- session specification with windows
\* The session with an application that opens and closes windows: getPage()
\* is called in every state of the session and of its windows.
NextPage ==
    \/ \E exists \in BOOLEAN, probeClosed \in BOOLEAN :
          Issued <= PageRequests /\ IssueCall("getPage", exists, probeClosed)
    \/ \E l \in LaunchIds, ok \in BOOLEAN : LaunchSpawn(l, ok)
    \/ \E l \in LaunchIds, ok \in BOOLEAN : LaunchFirstWindow(l, ok)
    \/ \E l \in LaunchIds, ok \in BOOLEAN : LaunchLoadState(l, ok)
    \/ \E p \in LaunchIds : ProcessExit(p)
    \/ \E p \in LaunchIds : WindowOpen(p)
    \/ \E w \in WinIds : PageClose(w)

SpecPage == InitWin /\ [][NextPage]_vars

\* --------------------------------------------------- buffer specification
\* The listeners registered by one setupPageHandlers call.
OnDialog(S, text, now) ==
    [S EXCEPT !.pendingDialogs =
        Append(@, [type |-> "alert", message |-> text, timestamp |-> now])]

OnConsole(S, text, now) ==
    [S EXCEPT !.consoleMessages =
        PushCapped(@, [type |-> "log", text |-> text, timestamp |-> now])]

\* A request entry has no status (0) until a response annotates it.
OnRequest(S, url, now) ==
    [S EXCEPT !.networkRequests =
        PushCapped(@, [url |-> url, method |-> "GET", status |-> 0,
                       timestamp |-> now])]

\* networkRequests.find(r => r.url === url && !r.status): position, 0 if none.
FirstPending(log, url) ==
    LET P == {i \in 1..Len(log) : log[i].url = url /\ log[i].status = 0} IN
    IF P = {} THEN 0 ELSE Min(P)

OnResponse(S, url, status) ==
    LET i == FirstPending(S.networkRequests, url) IN
    IF i = 0 THEN S ELSE [S EXCEPT !.networkRequests[i].status = status]

Urls     == {"a", "b"}
Statuses == {200, 404}
PageEvents ==
    {[op |-> k, url |-> "", status |-> 0] : k \in {"dialog", "console"}}
       \cup {[op |-> "request", url |-> u, status |-> 0] : u \in Urls}
       \cup {[op |-> "response", url |-> u, status |-> c] : u \in Urls, c \in Statuses}

\* One set of listeners handles event ev, the n-th event of the run.
Handle(S, ev, n, now) ==
    CASE ev.op = "dialog"  -> OnDialog(S, <<"new", n>>, now)
      [] ev.op = "console" -> OnConsole(S, <<"new", n>>, now)
      [] ev.op = "request" -> OnRequest(S, ev.url, now)
      [] OTHER             -> OnResponse(S, ev.url, ev.status)

\* Every set of listeners registered on the window handles the event.
RECURSIVE HandleN(_, _, _, _, _)
HandleN(S, ev, n, now, sets) ==
    IF sets = 0 THEN S ELSE HandleN(Handle(S, ev, n, now), ev, n, now, sets - 1)

\* Window w emits event ev.
Deliver(w, ev) ==
    /\ wired[w] > 0
    /\ ~IsClosed(w)
    /\ emitted < MaxDeliveries
    /\ emitted' = emitted + 1
    /\ Commit([HandleN(Sess, ev, emitted + 1, clock, wired[w]) EXCEPT !.ret = ev])
    /\ UNCHANGED <<tempUserDataDir, config, procs, dirs, clock, lastRef,
                   opened, shut, gens, switched, capturing, selecting, quitting, boxes, ext>>
    /\ Keep({"launches", "calls", "closes"})

\* Array.prototype.slice(start) for an integer start.
JsSlice(buf, start) ==
    LET n == Len(buf)
        k == IF start < 0 THEN (IF n + start < 0 THEN 0 ELSE n + start)
                          ELSE (IF start > n THEN n ELSE start)
    IN  SubSeq(buf, k + 1, n)

\* getConsoleMessages(limit) / getNetworkRequests(limit): buf.slice(-limit)
ReadLast(buf, limit) == JsSlice(buf, 0 - limit)

Limits == (0..MaxLimit) \cup {DefaultLimit, BufferCap + 1}

\* browser_console_messages / browser_network_requests: ensureReady()
\* returns at once, then the reader is called.
ToolRead(op, limit) ==
    /\ ReadyNow
    /\ Commit([Sess EXCEPT !.ret =
                 [op |-> op, limit |-> limit,
                  out |-> ReadLast(IF op = "getConsoleMessages"
                                   THEN consoleMessages ELSE networkRequests, limit)]])
    /\ UNCHANGED <<tempUserDataDir, config, procs, dirs, clock, lastRef, aux>>
    /\ Keep({"launches", "calls", "closes"})

\* What the first window has emitted before the run starts: n dialogs, n
\* console messages and n requests, the last two requests still unanswered.
FillLevels == {0, 2, BufferCap - 1, BufferCap}
FilledDialogs(n) ==
    [i \in 1..n |-> [type |-> "alert", message |-> <<"old", i>>, timestamp |-> 0]]
FilledConsole(n) ==
    [i \in 1..n |-> [type |-> "log", text |-> <<"old", i>>, timestamp |-> 0]]
FilledNetwork(n) ==
    [i \in 1..n |-> [url |-> IF i % 2 = 0 THEN "a" ELSE "b", method |-> "GET",
                     status |-> IF i > n - 2 THEN 0 ELSE 200, timestamp |-> 0]]

InitBuf ==
    /\ \E n \in FillLevels :
          ReadySession(FilledDialogs(n), FilledConsole(n), FilledNetwork(n))
    /\ ~config.isolated

NextBuf ==
    \/ \E ev \in PageEvents : Deliver(1, ev)
    \/ \E sel \in SyncSelectors : ToolSelect(sel)
    \/ \E op \in {"getConsoleMessages", "getNetworkRequests"}, limit \in Limits :
          ToolRead(op, limit)

SpecBuf == InitBuf /\ [][NextBuf]_vars

\* ----------------------------------------------------------- browser_close
\* browser_close without force, on a session whose getApp() returns the
\* process handle at once: app.evaluate(({ app }) => app.quit()) is sent.
ToolCloseGraceful ==
    /\ ReadyNow
    /\ quitting = 0
    /\ quitting' = app
    /\ Commit(Sess)
    /\ UNCHANGED <<tempUserDataDir, config, procs, dirs, clock, lastRef,
                   opened, shut, gens, switched, emitted, capturing, selecting, boxes, ext>>
    /\ Keep({"launches", "calls", "closes"})

\* What a browser_close handler returned, and by which path.
Closed(path) == [op |-> "browser_close", path |-> path, kind |-> "success"]

\* The evaluate call of the graceful path settles.  Resolved: the handler
\* returns { success: true } (the process exits some time later, or not at
\* all).  Rejected: the catch block calls ctx.close().
QuitDone(ok) ==
    /\ quitting # 0
    /\ ok => procs[quitting] = "alive"
    /\ quitting' = 0
    /\ UNCHANGED <<tempUserDataDir, config, procs, dirs, clock, lastRef,
                   opened, shut, gens, switched, emitted, capturing, selecting, boxes, ext>>
    /\ Keep({"launches", "calls"})
    /\ IF ok
       THEN /\ Commit([Sess EXCEPT !.ret = Closed("graceful")])
            /\ Keep({"closes"})
       ELSE LET k == NextClose IN
            /\ k # 0
            /\ IF app # 0
               THEN /\ closes' = [ClosesNow EXCEPT ![k] =
                           [pc |-> "appClose", target |-> app, dir |-> 0]]
                    /\ Commit(Sess)
               ELSE CloseAfterApp(k, 0)

\* ------------------------------------- session specification with close
\* A session that has run for a while: the buffers hold entries.  Tool
\* calls, crashes, relaunches, close() (browser_close with force, or the
\* signal handlers) and browser_close without force.
InitQuit == ReadySession(FilledDialogs(1), FilledConsole(1), FilledNetwork(1))

NextQuit ==
    \/ \E kind \in CallKinds, exists \in BOOLEAN, probeClosed \in BOOLEAN :
          Issued <= QuitRequests /\ IssueCall(kind, exists, probeClosed)
    \/ \E l \in LaunchIds, ok \in BOOLEAN : LaunchMkdtemp(l, ok)
    \/ \E l \in LaunchIds, ok \in BOOLEAN : LaunchSpawn(l, ok)
    \/ \E l \in LaunchIds, ok \in BOOLEAN : LaunchFirstWindow(l, ok)
    \/ \E l \in LaunchIds, ok \in BOOLEAN : LaunchLoadState(l, ok)
    \/ \E p \in LaunchIds : ProcessExit(p)
    \/ Issued <= QuitRequests /\ CloseCall
    \/ \E k \in CloseIds, ok \in BOOLEAN : CloseAppDone(k, ok)
    \/ \E k \in CloseIds, ok \in BOOLEAN : CloseRmDone(k, ok)
    \/ Issued <= QuitRequests /\ ToolCloseGraceful
    \/ \E ok \in BOOLEAN : QuitDone(ok)
    \/ ToolSnapshotStart(1)
    \/ ToolSnapshotNodes(1)

SpecQuit == InitQuit /\ [][NextQuit]_vars

\* ------------------------ session specification that follows the listeners
\* getPage() and close() calls in any order and overlap, with launches that
\* succeed or fail at every step.
NextWire ==
    \/ Issued < WireRequests /\ IssueCall("getPage", TRUE, FALSE)
    \/ \E l \in LaunchIds, ok \in BOOLEAN : LaunchSpawn(l, ok)
    \/ \E l \in LaunchIds, ok \in BOOLEAN : LaunchFirstWindow(l, ok)
    \/ \E l \in LaunchIds, ok \in BOOLEAN : LaunchLoadState(l, ok)
    \/ \E p \in LaunchIds : ProcessExit(p)
    \/ Issued < WireRequests /\ CloseCall
    \/ \E k \in CloseIds, ok \in BOOLEAN : CloseAppDone(k, ok)

SpecWire == InitGen /\ [][NextWire]_vars

\* ------------------------------------------------------------ action tools
\* The tools that hand one call to the driver: locator.click / fill /
\* pressSequentially, page.goto, page.evaluate, and the waits of
\* browser_wait_for.
ActTools == {"browser_click", "browser_type", "browser_navigate",
             "browser_evaluate", "browser_wait_for"}

\* The refs an action tool may be given: browser_click and browser_type
\* take one, browser_wait_for may, the others take none.
ActRefs(tool) ==
    CASE tool \in {"browser_click", "browser_type"} -> RefInputs
      [] tool = "browser_wait_for" -> RefInputs \cup {Undefined}
      [] OTHER -> {Undefined}

\* How a tool call ended: "ok", the class of the error that
\* resolveToLocator threw, "failed" or "timeout".
Acted(tool, kind) == [op |-> "action", tool |-> tool, kind |-> kind]

\* OnActionFailure with the session marked as failed.
MutOnActionFailure(S) == SetState(S, "error", "event")

\* What the catch blocks of the handlers and of the CallTool request handler
\* do to the session when the driver call rejects: they wrap the error
\* (TimeoutError, EvaluationError) or rethrow it, and format it as the
\* result of the tool.
OnActionFailure(S) == S

\* An action tool: getPage() hands the active window over at once,
\* resolveToLocator(page, ref) when a ref is given, then the driver call.
ToolActStart(tool, ref) ==
    /\ ReadyNow
    /\ currentPage # 0
    /\ ~IsClosed(currentPage)
    /\ acting.pc = "none"
    /\ LET r == ResolveToLocator(currentSnapshot, currentPage, ref) IN
       IF ref # Undefined /\ r.kind # "element"
       THEN /\ Commit([Sess EXCEPT !.ret = Acted(tool, r.kind)])
            /\ acting' = acting
       ELSE /\ Commit(Sess)
            /\ acting' = [pc |-> "driver", tool |-> tool, page |-> currentPage]
    /\ UNCHANGED <<tempUserDataDir, config, procs, dirs, clock, lastRef,
                   opened, shut, gens, switched, emitted, capturing, selecting,
                   quitting, boxes, overlays, shot, snapping>>
    /\ Keep({"launches", "calls", "closes"})

\* The driver call settles: resolved ("ok", on a window that is open),
\* rejected ("failed") or rejected after its timeout ("timeout").
ActSettles(outcome) ==
    /\ acting.pc = "driver"
    /\ outcome = "ok" => ~IsClosed(acting.page)
    /\ acting' = NoAct
    /\ Commit([(IF outcome = "ok" THEN Sess ELSE OnActionFailure(Sess))
                  EXCEPT !.ret = Acted(acting.tool, outcome)])
    /\ UNCHANGED <<tempUserDataDir, config, procs, dirs, clock, lastRef,
                   opened, shut, gens, switched, emitted, capturing, selecting,
                   quitting, boxes, overlays, shot, snapping>>
    /\ Keep({"launches", "calls", "closes"})

\* ------------------------------- session specification with action tools
\* A ready session whose buffers hold entries: action tools, snapshots,
\* page events, windows that close and a process that exits while a driver
\* call is in flight.
NextAct ==
    \/ \E tool \in ActTools : \E ref \in ActRefs(tool) : ToolActStart(tool, ref)
    \/ \E outcome \in {"ok", "failed", "timeout"} : ActSettles(outcome)
    \/ ToolSnapshotStart(1)
    \/ \E n \in 0..1 : ToolSnapshotNodes(n)
    \/ \E ev \in PageEvents : emitted < ActEvents /\ Deliver(1, ev)
    \/ \E w \in WinIds : PageClose(w)
    \/ \E p \in LaunchIds : ProcessExit(p)

SpecAct == InitQuit /\ [][NextAct]_vars

\* --------------------------------------------------------- takeScreenshot
\* What a takeScreenshot call was given and how it ended: `kind` is
\* "buffer" (returned) or "error" (thrown), `captured` says that
\* page.screenshot() resolved, `injected` that the call appended its
\* container to the document, `removed` that it ran removeAnnotations.
ShotResult(c, kind, removed) ==
    [op |-> "takeScreenshot", kind |-> kind, annotate |-> c.annotate,
     page |-> c.page, captured |-> c.ok, injected |-> c.injected,
     removed |-> removed]

\* The labels that an injectAnnotations call has read from
\* currentBoundingBoxes and sends to the page.
Drawn(labels) == [op |-> "injectAnnotations", labels |-> labels]

\* injectAnnotations(page) up to its await: it returns at once when there
\* are no boxes (takeScreenshot then calls page.screenshot()), else it sends
\* the boxes to the page.
InjectAnnotations(c, labels) ==
    IF labels = {} THEN [c EXCEPT !.pc = "screenshot"]
    ELSE [c EXCEPT !.pc = "inject", !.labels = labels]

\* CleansUp with the removal after the screenshot instead of in `finally`.
MutCleansUp(annotate, ok) == annotate /\ ok

\* The finally block of takeScreenshot: whether removeAnnotations is called
\* once page.screenshot() has resolved (ok) or rejected.
CleansUp(annotate, ok) == annotate

\* browser_take_screenshot: getPage() hands the active window over at once
\* and takeScreenshot(page, { annotate }) runs up to its first await: of
\* captureSnapshot when annotate is set and there are no boxes, else of
\* injectAnnotations when annotate is set, else of page.screenshot().
ToolShotStart(annotate) ==
    /\ ReadyNow
    /\ currentPage # 0
    /\ ~IsClosed(currentPage)
    /\ \E j \in ShotIds : shot[j].pc = "none"
    /\ LET i == Min({j \in ShotIds : shot[j].pc = "none"})
           c == [NoShot EXCEPT !.annotate = annotate, !.page = currentPage]
       IN  IF annotate /\ boxes = {}
           THEN /\ Commit(StartNewSnapshot(Sess, clock, 1))
                /\ boxes' = {}
                /\ switched' = FALSE
                /\ lastRef' = NoReturn
                /\ shot' = [shot EXCEPT ![i] = [c EXCEPT !.pc = "capture"]]
           ELSE /\ Commit(IF annotate THEN [Sess EXCEPT !.ret = Drawn(boxes)]
                                      ELSE Sess)
                /\ shot' = [shot EXCEPT ![i] =
                              IF annotate THEN InjectAnnotations(c, boxes)
                              ELSE [c EXCEPT !.pc = "screenshot"]]
                /\ UNCHANGED <<boxes, switched, lastRef>>
    /\ UNCHANGED <<tempUserDataDir, config, procs, dirs, clock, opened, shut,
                   gens, emitted, capturing, selecting, quitting, acting,
                   overlays, snapping>>
    /\ Keep({"launches", "calls", "closes"})

\* The captureSnapshot call of takeScreenshot gets the tree of the page (n
\* nodes) and runs processNodes, or its page calls reject; takeScreenshot
\* then calls injectAnnotations.  An error leaves takeScreenshot before its
\* try block.
ShotCaptured(i, n, ok) ==
    /\ shot[i].pc = "capture"
    /\ ok => ~IsClosed(shot[i].page)
    /\ ~ok => n = 0
    /\ refCounter + n <= GenRefs
    /\ LET c == shot[i]
           P == RegisterNodes([s |-> Sess, last |-> lastRef], n)
           B == ProcessedBoxes(Sess, P.s)
           thrown == n > 0 /\ ~currentSnapshot.active
       IN  IF ~ok
           THEN /\ Commit([Sess EXCEPT !.ret = ShotResult(c, "error", FALSE)])
                /\ shot' = [shot EXCEPT ![i] = NoShot]
                /\ UNCHANGED <<boxes, lastRef>>
           ELSE /\ lastRef' = P.last
                /\ boxes' = B
                /\ IF thrown
                   THEN /\ Commit([P.s EXCEPT !.ret = ShotResult(c, "error", FALSE)])
                        /\ shot' = [shot EXCEPT ![i] = NoShot]
                   ELSE /\ Commit(IF B = {} THEN P.s
                                  ELSE [P.s EXCEPT !.ret = Drawn(B)])
                        /\ shot' = [shot EXCEPT ![i] = InjectAnnotations(c, B)]
    /\ UNCHANGED <<tempUserDataDir, config, procs, dirs, clock, opened, shut,
                   gens, switched, emitted, capturing, selecting, quitting,
                   acting, overlays, snapping>>
    /\ Keep({"launches", "calls", "closes"})

\* The page.evaluate call of injectAnnotations settles.  Resolved: the
\* container is in the document and takeScreenshot calls page.screenshot().
\* Rejected: nothing was appended, and the error leaves takeScreenshot
\* before its try block.
ShotInjected(i, ok) ==
    /\ shot[i].pc = "inject"
    /\ ok => ~IsClosed(shot[i].page)
    /\ IF ok
       THEN /\ overlays' = [overlays EXCEPT ![shot[i].page] = @ + 1]
            /\ shot' = [shot EXCEPT ![i].pc = "screenshot", ![i].injected = TRUE]
            /\ Commit(Sess)
       ELSE /\ overlays' = overlays
            /\ shot' = [shot EXCEPT ![i] = NoShot]
            /\ Commit([Sess EXCEPT !.ret = ShotResult(shot[i], "error", FALSE)])
    /\ UNCHANGED <<tempUserDataDir, config, procs, dirs, clock, lastRef, opened,
                   shut, gens, switched, emitted, capturing, selecting,
                   quitting, acting, boxes, snapping>>
    /\ Keep({"launches", "calls", "closes"})

\* page.screenshot() settles and the finally block runs: removeAnnotations
\* is called, or the call returns the buffer or throws.
ShotTaken(i, ok) ==
    /\ shot[i].pc = "screenshot"
    /\ ok => ~IsClosed(shot[i].page)
    /\ LET c == [shot[i] EXCEPT !.ok = ok] IN
       IF CleansUp(c.annotate, ok)
       THEN /\ shot' = [shot EXCEPT ![i] = [c EXCEPT !.pc = "remove"]]
            /\ Commit(Sess)
       ELSE /\ shot' = [shot EXCEPT ![i] = NoShot]
            /\ Commit([Sess EXCEPT !.ret =
                         ShotResult(c, IF ok THEN "buffer" ELSE "error", FALSE)])
    /\ UNCHANGED <<tempUserDataDir, config, procs, dirs, clock, lastRef, opened,
                   shut, gens, switched, emitted, capturing, selecting,
                   quitting, acting, boxes, overlays, snapping>>
    /\ Keep({"launches", "calls", "closes"})

\* The page.evaluate call of removeAnnotations settles and takeScreenshot
\* ends.  Resolved: getElementById found the first container, if there is
\* one, and removed it.  Rejected: the window is closed or the document
\* that held the container has been replaced.
ShotRemoved(i, ok) ==
    /\ shot[i].pc = "remove"
    /\ ok => ~IsClosed(shot[i].page)
    /\ ~ok => (IsClosed(shot[i].page) \/ overlays[shot[i].page] = 0)
    /\ overlays' = IF ok /\ overlays[shot[i].page] > 0
                   THEN [overlays EXCEPT ![shot[i].page] = @ - 1]
                   ELSE overlays
    /\ shot' = [shot EXCEPT ![i] = NoShot]
    /\ Commit([Sess EXCEPT !.ret =
                 ShotResult(shot[i], IF ok /\ shot[i].ok THEN "buffer" ELSE "error",
                            TRUE)])
    /\ UNCHANGED <<tempUserDataDir, config, procs, dirs, clock, lastRef, opened,
                   shut, gens, switched, emitted, capturing, selecting,
                   quitting, acting, boxes, snapping>>
    /\ Keep({"launches", "calls", "closes"})

\* Window w loads another document (page.goto of browser_navigate, a
\* reload, or the application itself): the containers go with the old one.
Navigate(w) ==
    /\ ~IsClosed(w)
    /\ overlays[w] > 0
    /\ overlays' = [overlays EXCEPT ![w] = 0]
    /\ Commit(Sess)
    /\ UNCHANGED <<tempUserDataDir, config, procs, dirs, clock, lastRef, opened,
                   shut, gens, switched, emitted, capturing, selecting,
                   quitting, acting, boxes, shot, snapping>>
    /\ Keep({"launches", "calls", "closes"})

\* ----------------------------------- window specification with screenshots
\* A ready session: screenshots with and without annotations, overlapping,
\* navigations and windows that close.
NextShot ==
    \/ \E annotate \in BOOLEAN : ToolShotStart(annotate)
    \/ \E i \in ShotIds, n \in 0..1, ok \in BOOLEAN : ShotCaptured(i, n, ok)
    \/ \E i \in ShotIds, ok \in BOOLEAN : ShotInjected(i, ok)
    \/ \E i \in ShotIds, ok \in BOOLEAN : ShotTaken(i, ok)
    \/ \E i \in ShotIds, ok \in BOOLEAN : ShotRemoved(i, ok)
    \/ \E w \in WinIds : Navigate(w)
    \/ \E w \in WinIds : PageClose(w)

SpecShot == InitWin /\ [][NextShot]_vars

\* ------------------------------ session specification with screenshots
\* The same calls, one screenshot at a time, in a session whose process
\* exits and is launched again.
NextAnnot ==
    \/ \E annotate \in BOOLEAN :
          (\A i \in ShotIds : shot[i].pc = "none") /\ ToolShotStart(annotate)
    \/ \E i \in ShotIds, n \in 0..1, ok \in BOOLEAN : ShotCaptured(i, n, ok)
    \/ \E i \in ShotIds, ok \in BOOLEAN : ShotInjected(i, ok)
    \/ \E i \in ShotIds, ok \in BOOLEAN : ShotTaken(i, ok)
    \/ \E i \in ShotIds, ok \in BOOLEAN : ShotRemoved(i, ok)
    \/ ToolSnapshotStart(1)
    \/ \E n \in 0..1 : ToolSnapshotNodes(n)
    \/ \E p \in LaunchIds : ProcessExit(p)
    \/ Issued <= ShotRequests /\ IssueCall("getPage", TRUE, FALSE)
    \/ Issued <= ShotRequests /\ CloseCall
    \/ \E k \in CloseIds, ok \in BOOLEAN : CloseAppDone(k, ok)
    \/ \E l \in LaunchIds : LaunchSpawn(l, TRUE)
    \/ \E l \in LaunchIds : LaunchFirstWindow(l, TRUE)
    \/ \E l \in LaunchIds : LaunchLoadState(l, TRUE)

SpecAnnot == InitWin /\ [][NextAnnot]_vars

\* ---------------------------------------------------------- element tree
\* What buildTree reads of an element: whether its computed style hides it
\* (display none or visibility hidden), its aria-hidden attribute, its role
\* (getRole), its accessible name (getAccessibleName), isInteractive and
\* its heading level (getHeadingLevel; 0 stands for undefined).
Element(hidden, ariaHidden, role, name, interactive) ==
    [hidden |-> hidden, ariaHidden |-> ariaHidden, role |-> role,
     name |-> name, interactive |-> interactive, level |-> 0]

\* <h1>..<h6> with the text of an aria-label.
Heading(name, level) ==
    [Element(FALSE, FALSE, "heading", name, FALSE) EXCEPT !.level = level]

\* A hidden button, an aria-hidden button, a <div>, a <div tabindex>, a
\* <div title>, a <main>, and a button.
Elements ==
    {Element(TRUE, FALSE, "button", "Save", TRUE),
     Element(FALSE, TRUE, "button", "Save", TRUE),
     Element(FALSE, FALSE, "", "", FALSE),
     Element(FALSE, FALSE, "", "", TRUE),
     Element(FALSE, FALSE, "", "Note", FALSE),
     Element(FALSE, FALSE, "main", "", FALSE),
     Element(FALSE, FALSE, "button", "Save", TRUE)}

\* The documents of n elements taken from els: element 1 is document.body, every other
\* element has an earlier one as its parent, and the children of an element
\* come in the order of their numbers.
Trees(n, els) ==
    {[parent |-> p, el |-> e] :
        p \in {q \in [1..n -> 0..n] :
                  /\ q[1] = 0
                  /\ \A i \in 2..n : q[i] \in 1..(i - 1)},
        e \in [1..n -> els]}

\* el.children of element i, from element j on.
RECURSIVE ChildrenFrom(_, _, _)
ChildrenFrom(t, i, j) ==
    IF j > Len(t.parent) THEN <<>>
    ELSE (IF t.parent[j] = i THEN <<j>> ELSE <<>>) \o ChildrenFrom(t, i, j + 1)

Children(t, i) == ChildrenFrom(t, i, i + 1)

\* buildTree(el) of the function evaluated in the page: <<>> for null, else
\* the node in a sequence of one.  BuildChildren is its loop over
\* el.children, which keeps the nodes that are not null.
RECURSIVE BuildTree(_, _), BuildChildren(_, _)
BuildTree(t, i) ==
    LET e == t.el[i] IN
    IF e.hidden THEN <<>>
    ELSE IF e.ariaHidden THEN <<>>
    ELSE LET children == BuildChildren(t, Children(t, i)) IN
         IF e.role = "" /\ e.name = "" /\ ~e.interactive /\ Len(children) = 0
         THEN <<>>
         ELSE IF e.role = "" /\ e.name = "" /\ Len(children) > 0
         THEN <<>>
         ELSE <<[el |-> i, role |-> e.role, name |-> e.name,
                 level |-> e.level, children |-> children]>>

BuildChildren(t, els) ==
    IF els = <<>> THEN <<>>
    ELSE BuildTree(t, Head(els)) \o BuildChildren(t, Tail(els))

\* collectNodes(el), and its loop over el.children.
RECURSIVE CollectNodes(_, _), CollectChildren(_, _)
CollectNodes(t, i) ==
    IF t.el[i].hidden THEN <<>>
    ELSE IF t.el[i].ariaHidden THEN <<>>
    ELSE LET node == BuildTree(t, i) IN
         IF node # <<>> THEN node ELSE CollectChildren(t, Children(t, i))

CollectChildren(t, els) ==
    IF els = <<>> THEN <<>>
    ELSE CollectNodes(t, Head(els)) \o CollectChildren(t, Tail(els))

\* The SnapshotElement that processNodes makes of a node that it has given
\* a ref, with the elements made of the node's children.
SnapshotElement(node, ref, children) ==
    [ref |-> ref, role |-> IF node.role = "" THEN "generic" ELSE node.role,
     name |-> node.name, level |-> node.level, children |-> children]

\* processNodes(nodes): P.s is the session, P.out the elements given a ref
\* so far, with the ref, P.tree the `results` array and P.thrown says that
\* registerElement has thrown.
RECURSIVE ProcessNodes(_, _)
ProcessNodes(P, nodes) ==
    IF nodes = <<>> \/ P.thrown THEN P
    ELSE LET node == Head(nodes)
             R == RegisterOrThrow(P.s, node.role, node.name, "")
             C == ProcessNodes(
                     [P EXCEPT !.s = R.s,
                               !.out = Append(@, [el |-> node.el, ref |-> R.ret]),
                               !.tree = <<>>],
                     node.children)
             Q == IF node.role # "" \/ node.name # ""
                  THEN IF R.ret[1] = "throw" THEN [P EXCEPT !.thrown = TRUE]
                       ELSE [C EXCEPT !.tree =
                                Append(P.tree, SnapshotElement(node, R.ret, C.tree))]
                  ELSE ProcessNodes(P, node.children)
         IN  ProcessNodes(Q, Tail(nodes))

\* A string cut at its line feeds.  The only name of the runs that holds a
\* line feed is the text content of <button>Sign<br>In</button> written
\* over two lines.
SplitLines(text) == IF text = "Sign\nIn" THEN <<"Sign", "In">> ELSE <<text>>

\* One line of the outline: the number of leading spaces and the pieces of
\* text that follow them.
Line(spaces, pieces) == [spaces |-> spaces, pieces |-> pieces]

\* The template literal of generateTextOutput for one element,
\* `${prefix}- [${ref}] ${role}${namePart}${levelPart}`, cut at the line
\* feeds it holds.
ElementLines(indent, e) ==
    LET parts == SplitLines(e.name)
        levelPart == IF e.level # 0 THEN <<" [level ", e.level, "]">> ELSE <<>>
        start == <<"- [", e.ref, "] ", e.role>>
    IN  IF e.name = "" THEN <<Line(2 * indent, start \o levelPart)>>
        ELSE IF Len(parts) = 1
        THEN <<Line(2 * indent, start \o <<" \"", e.name, "\"">> \o levelPart)>>
        ELSE <<Line(2 * indent, start \o <<" \"", parts[1]>>),
               Line(0, <<parts[2], "\"">> \o levelPart)>>

\* generateTextOutput(elements, indent), as the lines of the string that it
\* returns.
RECURSIVE GenerateTextOutput(_, _)
GenerateTextOutput(elements, indent) ==
    IF elements = <<>> THEN <<>>
    ELSE LET e == Head(elements) IN
         ElementLines(indent, e)
            \o (IF e.children # <<>> THEN GenerateTextOutput(e.children, indent + 1)
                ELSE <<>>)
            \o GenerateTextOutput(Tail(elements), indent)

\* A suspended captureSnapshot evaluates collectNodes(document.body) in a
\* page whose document is t, runs processNodes on the result and returns.
ToolSnapshotTree(t) ==
    /\ capturing > 0
    /\ LET P == ProcessNodes([s |-> Sess, out |-> <<>>, tree |-> <<>>,
                              thrown |-> FALSE],
                             CollectNodes(t, 1))
       IN  /\ Commit([P.s EXCEPT !.ret = [op |-> "captureSnapshot", dom |-> t,
                                          emitted |-> P.out,
                                          text |-> GenerateTextOutput(P.tree, 0)]])
           /\ lastRef' = IF P.thrown THEN [ret |-> <<"throw", 0>>, k |-> 0]
                         ELSE IF P.out = <<>> THEN lastRef
                         ELSE [ret |-> P.out[Len(P.out)].ref,
                               k |-> lastRef.k + Len(P.out)]
           /\ boxes' = ProcessedBoxes(Sess, P.s)
    /\ capturing' = capturing - 1
    /\ UNCHANGED <<tempUserDataDir, config, procs, dirs, clock,
                   opened, shut, gens, switched, emitted, selecting, quitting, ext>>
    /\ Keep({"launches", "calls", "closes"})

\* ------------------------------------ specification of the element tree
\* The first snapshot of a ready session, of every document of MaxNodes
\* elements.
NextTree ==
    \/ ~currentSnapshot.active /\ ToolSnapshotStart(1)
    \/ \E t \in Trees(MaxNodes, Elements) : ToolSnapshotTree(t)

SpecTree == InitWin /\ [][NextTree]_vars

\* ----------------------------------------- specification of the outline
\* Headings with a level, buttons whose text is on one line or on two, a
\* <main>, a <div title> and a <div>.
OutlineElements ==
    {Heading("Welcome", 1),
     Heading("Details", 2),
     Element(FALSE, FALSE, "button", "Sign In", TRUE),
     Element(FALSE, FALSE, "button", "Sign\nIn", TRUE),
     Element(FALSE, FALSE, "main", "", FALSE),
     Element(FALSE, FALSE, "", "Note", FALSE),
     Element(FALSE, FALSE, "", "", FALSE)}

\* The first snapshot of a ready session, of every document of OutlineNodes
\* such elements.
NextOutline ==
    \/ ~currentSnapshot.active /\ ToolSnapshotStart(1)
    \/ \E t \in Trees(OutlineNodes, OutlineElements) : ToolSnapshotTree(t)

SpecOutline == InitWin /\ [][NextOutline]_vars

\* ------------------------------------------------ tool call error responses
\* A thrown value: class is the constructor's name for Errors and the
\* typeof for other values; the message is a template text with the
\* strings substituted into it.
Thrown(class, text, args, suggestion) ==
    [class |-> class, text |-> text, args |-> args, suggestion |-> suggestion]

\* The subclasses of ElectronMcpError, with the arguments of their
\* constructors.
RefNotFoundError(ref) ==
    Thrown("RefNotFoundError", "Element ref '%' not found", <<ref>>,
           <<"Take a new snapshot with browser_snapshot to get fresh element refs">>)

StaleRefError(ref, snapshotId) ==
    Thrown("StaleRefError", "Element ref '%' is from stale snapshot '%'", <<ref, snapshotId>>,
           <<"Take a new snapshot with browser_snapshot - refs expire after each snapshot">>)

AppNotReadyError ==
    Thrown("AppNotReadyError", "Electron app is not ready", <<>>,
           <<"The app may be starting up or has crashed. Try the operation again.">>)

AppClosedError ==
    Thrown("AppClosedError", "Electron app has been closed", <<>>,
           <<"The application was closed. It will be relaunched on the next tool call.">>)

NoWindowError ==
    Thrown("NoWindowError", "No window is currently active", <<>>,
           <<"Wait for a window to open or check if the app launched correctly">>)

TimeoutError(operation, timeoutMs) ==
    Thrown("TimeoutError", "Operation '%' timed out after %ms", <<operation, timeoutMs>>,
           <<"The operation took too long. Try increasing the timeout or check if the app is responsive.">>)

\* path is the optional second argument: <<>> when it is left out or empty.
LaunchFailure(message, path) ==
    Thrown("LaunchError", "Failed to launch Electron app: %", <<message>>,
           IF path # <<>> THEN <<"Check that the path exists: %", path[1]>>
           ELSE <<"Verify the app path and ensure Electron is installed">>)

DialogPendingError ==
    Thrown("DialogPendingError", "A dialog is blocking the page", <<>>,
           <<"Use browser_handle_dialog to accept or dismiss the dialog first">>)

EvaluationError(message, isMainProcess) ==
    Thrown("EvaluationError", "JavaScript evaluation failed: %", <<message>>,
           IF isMainProcess
           THEN <<"Check the JavaScript syntax and ensure it returns a serializable value">>
           ELSE <<"The code runs in the renderer context. Use electron_evaluate_main for main process.">>)

\* new Error(message), and the values that are no Error at all.
GenericError(message) == Thrown("Error", message, <<>>, <<>>)

StringValue(s) == Thrown("string", s, <<>>, <<>>)

NumberValue == Thrown("number", "", <<"42">>, <<>>)

UndefinedValue == Thrown("undefined", "", <<>>, <<>>)

McpClasses ==
    {"RefNotFoundError", "StaleRefError", "AppNotReadyError", "AppClosedError", "NoWindowError",
     "TimeoutError", "LaunchError", "DialogPendingError", "EvaluationError"}

\* String(error) of a value that is not an Error.
JsString(v) ==
    CASE v.class = "string" -> v.text
      [] v.class = "number" -> v.args[1]
      [] OTHER -> "undefined"

\* formatError with the suggestion of a plain Error left out, as the
\* optional field of its result type allows.
MutFormatError(v) ==
    IF v.class \in McpClasses
    THEN [error |-> <<v.text>> \o v.args, suggestion |-> v.suggestion]
    ELSE IF v.class = "Error"
    THEN [error |-> <<v.text>>, suggestion |-> <<>>]
    ELSE [error |-> <<JsString(v)>>, suggestion |-> <<"An unexpected error occurred.">>]

\* formatError(error): toJSON() of an ElectronMcpError carries its own
\* suggestion; every other value gets a fixed one.
FormatError(v) ==
    IF v.class \in McpClasses
    THEN [error |-> <<v.text>> \o v.args, suggestion |-> v.suggestion]
    ELSE IF v.class = "Error"
    THEN [error |-> <<v.text>>,
          suggestion |-> <<"An unexpected error occurred. Try the operation again.">>]
    ELSE [error |-> <<JsString(v)>>, suggestion |-> <<"An unexpected error occurred.">>]

\* The names registered in toolMap.
ToolNames ==
    {"electron_app_info", "browser_evaluate", "electron_evaluate_main", "browser_click",
     "browser_type", "browser_press_key", "browser_hover", "browser_drag",
     "browser_select_option", "browser_fill_form", "browser_file_upload", "browser_navigate",
     "browser_navigate_back", "browser_snapshot", "browser_take_screenshot", "browser_wait_for",
     "browser_handle_dialog", "browser_tabs", "browser_resize", "browser_close",
     "browser_console_messages", "browser_network_requests"}

RequestNames == ToolNames \cup {"browser_fly"}

\* What the handlers of the tools throw: the errors of this repository's
\* own throw sites, the Errors of the libraries below them (which carry a
\* message), and values that are no Error.
Failures ==
    {RefNotFoundError(ref) : ref \in {"e0", "e7"}}
    \cup {StaleRefError("e0", id) : id \in {"snap-1"}}
    \cup {AppNotReadyError, AppClosedError, NoWindowError, DialogPendingError}
    \cup {TimeoutError(operation, "5000") : operation \in {"text \"Saved\"", "condition"}}
    \cup {LaunchFailure("spawn ENOENT", path) : path \in {<<>>, <<"/apps/main.js">>}}
    \cup {EvaluationError(message, isMain) :
            message \in {"x is not defined", ""}, isMain \in BOOLEAN}
    \cup {GenericError(message) :
            message \in {"Window index 3 out of range (0-1)", "No snapshot started",
                         "locator.click: Timeout 30000ms exceeded."}}
    \cup {StringValue("string error"), NumberValue, UndefinedValue}

\* What a handler does: it returns (<<>>) or throws a value (<<v>>).
Outcomes == {<<>>} \cup {<<v>> : v \in Failures}

\* The text of a response: JSON.stringify of the fields that are defined.
ErrorResponse(name, v, body) ==
    [op |-> "callTool", name |-> name, threw |-> v, isError |-> TRUE, rejected |-> FALSE,
     error |-> body.error, suggestion |-> body.suggestion]

\* The CallTool request handler: an unknown name is answered at once; a
\* known tool's handler runs inside try, and whatever it throws is caught
\* and formatted.
CallTool(name, outcome) ==
    /\ Commit([Sess EXCEPT !.ret =
          IF name \notin ToolNames
          THEN ErrorResponse(name, <<>>,
                   [error |-> <<"Unknown tool: %", name>>,
                    suggestion |-> <<"Available tools: %">>])
          ELSE IF outcome = <<>>
          THEN [op |-> "callTool", name |-> name, threw |-> <<>>, isError |-> FALSE,
                rejected |-> FALSE, error |-> <<>>, suggestion |-> <<>>]
          ELSE ErrorResponse(name, outcome, FormatError(outcome[1]))])
    /\ UNCHANGED <<tempUserDataDir, config, procs, dirs, clock, lastRef, aux>>
    /\ Keep({"launches", "calls", "closes"})

NextServe ==
    \E name \in RequestNames, outcome \in Outcomes : CallTool(name, outcome)

SpecServe == InitWin /\ [][NextServe]_vars

\* ------------------------------------------- overlapping captureSnapshot
\* The sequence without its i-th element.
Without(seq, i) == SubSeq(seq, 1, i - 1) \o SubSeq(seq, i + 1, Len(seq))

\* browser_snapshot while other captures may be suspended: getPage() hands
\* the active window over at once and captureSnapshot(page) runs up to its
\* first await, keeping the id of the generation it started in its
\* constant snapshotId.
OverlapStart(r) ==
    /\ ReadyNow
    /\ currentPage # 0
    /\ ~IsClosed(currentPage)
    /\ Len(snapping) < MaxOverlap
    /\ Commit(StartNewSnapshot(Sess, clock, r))
    /\ snapping' = Append(snapping, SnapshotId(clock, r))
    /\ lastRef' = NoReturn
    /\ boxes' = {}
    /\ UNCHANGED <<tempUserDataDir, config, procs, dirs, clock, opened, shut, gens,
                   switched, emitted, capturing, selecting, quitting,
                   acting, overlays, shot>>
    /\ Keep({"launches", "calls", "closes"})

\* What captureSnapshot returns after processNodes has taken the table
\* from S to T: its own snapshotId, the refs that registerElement handed
\* out in the order of the traversal, and for each of them the id of the
\* generation that holds it.
OverlapResult(S, T, id, n) ==
    [op |-> "captureSnapshot", snapshotId |-> id,
     refs |-> [k \in 1..n |-> NextRef(S.refCounter + k - 1)],
     registered |-> [k \in 1..n |-> T.currentSnapshot.id]]

\* The i-th suspended captureSnapshot gets the tree of the page (n nodes
\* with a role), runs processNodes on it and returns.
OverlapFinish(i, n) ==
    /\ i \in 1..Len(snapping)
    /\ refCounter + n <= GenRefs
    /\ LET P == RegisterNodes([s |-> Sess, last |-> NoReturn], n) IN
       /\ Commit([P.s EXCEPT !.ret = OverlapResult(Sess, P.s, snapping[i], n)])
       /\ lastRef' = P.last
       /\ boxes' = ProcessedBoxes(Sess, P.s)
    /\ snapping' = Without(snapping, i)
    /\ UNCHANGED <<tempUserDataDir, config, procs, dirs, clock, opened, shut, gens,
                   switched, emitted, capturing, selecting, quitting,
                   acting, overlays, shot>>
    /\ Keep({"launches", "calls", "closes"})

\* Date.now() advances between two calls.
OverlapTick ==
    /\ clock < MaxClock
    /\ clock' = clock + 1
    /\ Commit(Sess)
    /\ UNCHANGED <<tempUserDataDir, config, procs, dirs, lastRef, aux>>
    /\ Keep({"launches", "calls", "closes"})

NextOver ==
    \/ \E r \in 1..NumRand : OverlapStart(r)
    \/ \E i \in 1..MaxOverlap, n \in 0..GenRefs : OverlapFinish(i, n)
    \/ OverlapTick

SpecOver == InitWin /\ [][NextOver]_vars

\* ------------------------------------------------------ browser_tabs list
\* getWindows(): one WindowInfo per window of app.windows(), with its
\* index in that array and what isClosed() says.
GetWindows(a) ==
    LET ws == Windows(a) IN
    [i \in 1..Len(ws) |-> [index |-> i - 1, window |-> ws[i], isClosed |-> IsClosed(ws[i])]]

\* windows.findIndex((w) => !w.isClosed): the index of the first entry that
\* is not closed, -1 when there is none.
FindOpenIndex(infos) ==
    LET open == {i \in 1..Len(infos) : ~infos[i].isClosed} IN
    IF open = {} THEN 0 - 1 ELSE Min(open) - 1

\* browser_tabs with action list on a ready session: ensureReady() returns
\* at once and no window opens or closes while the titles are read.
ToolList ==
    /\ ReadyNow
    /\ LET infos == GetWindows(app) IN
       Commit([Sess EXCEPT !.ret = [op |-> "browser_tabs", windows |-> infos,
                                    activeIndex |-> FindOpenIndex(infos)]])
    /\ UNCHANGED <<tempUserDataDir, config, procs, dirs, clock, lastRef, aux>>
    /\ Keep({"launches", "calls", "closes"})

NextTabs ==
    \/ \E p \in LaunchIds : WindowOpen(p)
    \/ \E w \in WinIds : PageClose(w)
    \/ \E sel \in SyncSelectors : ToolSelect(sel)
    \/ ToolList

SpecTabs == InitWin /\ [][NextTabs]_vars

\* ------------------------------------------------ browser_close, any state
\* The browser_close handler up to its first await.  With force it calls
\* ctx.close().  Without force it calls ctx.getApp(), which calls
\* ensureReady(): on a ready session the process handle comes back at once
\* and app.quit() is sent; otherwise the call joins the launch in progress
\* or starts one.
BrowserClose(force, exists, probeClosed) ==
    IF force THEN CloseCall
    ELSE IF IsReadyFast(Sess, probeClosed)
    THEN ~probeClosed /\ ToolCloseGraceful
    ELSE IssueCall("getApp", exists, probeClosed)

\* A session on which browser_close is the only tool called.
NextIdle ==
    \/ \E force \in BOOLEAN, exists \in BOOLEAN, probeClosed \in BOOLEAN :
          Issued < CloseRequests /\ BrowserClose(force, exists, probeClosed)
    \/ \E l \in LaunchIds, ok \in BOOLEAN : LaunchMkdtemp(l, ok)
    \/ \E l \in LaunchIds, ok \in BOOLEAN : LaunchSpawn(l, ok)
    \/ \E l \in LaunchIds, ok \in BOOLEAN : LaunchFirstWindow(l, ok)
    \/ \E l \in LaunchIds, ok \in BOOLEAN : LaunchLoadState(l, ok)
    \/ \E p \in LaunchIds : ProcessExit(p)
    \/ \E k \in CloseIds, ok \in BOOLEAN : CloseAppDone(k, ok)
    \/ \E k \in CloseIds, ok \in BOOLEAN : CloseRmDone(k, ok)
    \/ \E ok \in BOOLEAN : QuitDone(ok)

SpecIdle == Init /\ [][NextIdle]_vars

\* ================================================================= claims
InFlight == {"mkdtemp", "electronLaunch", "firstWindow", "loadState"}
Settled  == {"resolved", "rejected"}

\* C1: a call issued while state is launching starts no launch: it awaits the
\* launch in flight, which another call owns; every launch in flight has one
\* owner; and the owner and all calls coalesced onto a launch settle in the
\* same step with the outcome of that launch (all resolved, or all rejected
\* with the launch's error).
C1_CoalescedLaunch ==
    /\ \A c \in CallIds :
          calls[c].issuedIn = "launching" =>
             /\ calls[c].role = "coalesced"
             /\ calls[c].pc = "awaiting"
             /\ launches[calls[c].launch].pc \in InFlight
             /\ launches[calls[c].launch].owner # c
    /\ \A l \in LaunchIds :
          launches[l].pc \in InFlight =>
             {c \in CallIds : calls[c].launch = l /\ calls[c].role = "owner"}
                = {launches[l].owner}
    /\ \A c \in CallIds :
          calls[c].launch # 0 =>
             LET l == calls[c].launch IN
             /\ calls[c].pc \in Settled <=> launches[l].pc \in Settled
             /\ calls[c].pc \in Settled =>
                   /\ calls[c].pc = launches[l].pc
                   /\ calls[c].err = launches[l].err

\* Witness of C1: a launch has just succeeded and three calls, its owner and
\* two calls coalesced onto it, have resolved with it.
C1_Witness ==
    \E l \in LaunchIds :
       /\ launches[l].pc = "resolved"
       /\ Cardinality({c \in CallIds : calls[c].launch = l /\ calls[c].pc = "resolved"
                                       /\ calls[c].role = "coalesced"}) >= 2
       /\ calls[launches[l].owner].pc = "resolved"

AllowedTransitions ==
    {<<"idle", "launching">>, <<"launching", "ready">>, <<"launching", "error">>,
     <<"ready", "closed">>, <<"error", "idle">>, <<"closed", "idle">>}

\* C2: every change of state not made by close() is one of idle->launching,
\* launching->ready, launching->error, ready->closed, error->idle, closed->idle.
C2_OnlyListedTransitions ==
    \A i \in 1..Len(stateLog) :
       stateLog[i][3] # "close" => <<stateLog[i][1], stateLog[i][2]>> \in AllowedTransitions

SessionCleared ==
    /\ app = 0
    /\ currentPage = 0
    /\ pendingDialogs = <<>>
    /\ consoleMessages = <<>>
    /\ networkRequests = <<>>
    /\ ~currentSnapshot.active

\* C3: a process close event leaves state closed; a call issued in state error
\* or closed has, when it first suspends, cleared the process handle, the
\* active window, the three buffers and the snapshot generation, gone through
\* idle and started a launch; and when the launch a call owns succeeds, state
\* is ready.
C3_RelaunchAfterClose ==
    /\ (\E i \in 1..Len(stateLog) : stateLog[i][3] = "event") => state = "closed"
    /\ \A c \in CallIds :
          calls[c].issuedIn \in {"error", "closed"} =>
             /\ SessionCleared
             /\ calls[c].role = "owner"
             /\ launches[calls[c].launch].owner = c
             /\ Len(stateLog) >= 2
             /\ stateLog[1] = <<calls[c].issuedIn, "idle", "ensureReady">>
             /\ stateLog[2] = <<"idle", "launching", "ensureReady">>
    /\ \A c \in CallIds :
          (calls[c].role = "owner" /\ calls[c].pc = "resolved") => state = "ready"

\* Witness of C3: a call issued in state closed has reset the session and is
\* awaiting the launch it started.
C3_Witness ==
    \E c \in CallIds :
       /\ calls[c].issuedIn = "closed"
       /\ calls[c].pc = "awaiting"
       /\ state = "launching"
       /\ SessionCleared
       /\ \E p \in LaunchIds : procs[p] = "exited"

\* C4: state in {idle, error, closed} implies that no launch is in flight.
C4_NoLaunchInFlight ==
    state \in {"idle", "error", "closed"} =>
       /\ launchPromise = 0
       /\ \A l \in LaunchIds : launches[l].pc \notin InFlight

\* C5: state ready implies a process handle.
C5_ReadyHasApp == state = "ready" => app # 0

\* C6: the process handle is null unless state is launching or ready.
C6_HandleOnlyWhileRunning == app # 0 => state \in {"launching", "ready"}

\* C7: when a launch has settled the launch promise reference is null, the
\* reference never names a settled launch, no call awaits a settled launch,
\* and a call issued in state error owns the launch it has just started.
C7_NoStalePromise ==
    /\ (\E l \in LaunchIds : launches[l].pc \in Settled) => launchPromise = 0
    /\ launchPromise # 0 => launches[launchPromise].pc \in InFlight
    /\ \A c \in CallIds :
          calls[c].pc = "awaiting" => launches[calls[c].launch].pc \in InFlight
    /\ \A c \in CallIds :
          calls[c].issuedIn = "error" =>
             /\ calls[c].role = "owner"
             /\ launches[calls[c].launch].owner = c
             /\ calls[c].pc \in Settled =>
                   (calls[c].pc = launches[calls[c].launch].pc
                      /\ calls[c].err = launches[calls[c].launch].err)

\* Witness of C7: after a failed launch, a call issued in state error is
\* awaiting a launch of its own.
C7_Witness ==
    \E c \in CallIds :
       /\ calls[c].issuedIn = "error"
       /\ calls[c].role = "owner"
       /\ calls[c].pc = "awaiting"
       /\ launchPromise = calls[c].launch
       /\ \E l \in LaunchIds : launches[l].pc = "settled"

\* C8: a call that is rejected because its launch failed is rejected with a
\* LaunchError that carries the attempted path and a remediation hint, and
\* state is error.
C8_LaunchFailureIsLaunchError ==
    \A c \in CallIds :
       calls[c].pc = "rejected" =>
          /\ calls[c].err.kind = "LaunchError"
          /\ calls[c].err.path
          /\ calls[c].err.hint
          /\ state = "error"

\* C9: whenever getPage() or getApp() hands a window or a process handle to
\* its caller, state is ready.
C9_HandedOnlyWhenReady ==
    \A c \in CallIds :
       calls[c].got \in {"page", "app"} => calls[c].gotIn = "ready"

\* Witness of C9: a getPage() call coalesced onto a launch has been handed
\* the window.
C9_Witness ==
    \E c \in CallIds :
       /\ calls[c].role = "coalesced"
       /\ calls[c].kind = "getPage"
       /\ calls[c].got = "page"

\* C10: within one generation the k-th registerElement call (k = 0, 1, ...)
\* returns e<k>, and getAllRefs() lists e0, e1, ... in that order.
C10_SequentialRefs ==
    /\ lastRef.ret[1] = "e" => lastRef.ret = RefString(lastRef.k - 1)
    /\ currentSnapshot.active =>
          /\ Len(GetAllRefs) = lastRef.k
          /\ \A i \in 1..Len(GetAllRefs) : GetAllRefs[i].ref = RefString(i - 1)

\* Witness of C10: three elements registered in one generation.
C10_Witness ==
    /\ Len(GetAllRefs) = 3
    /\ lastRef.ret = RefString(2)

\* Refs issued in a generation that a later generation has superseded.
IssuedEarlier(ref) ==
    \E i \in 1..(Len(gens) - 1) : \E k \in 0..(gens[i].n - 1) : ref = RefString(k)

IsLookup == returned.op \in {"getElement", "resolveToLocator"}

\* C11: a ref issued in a generation that a later generation has superseded
\* never resolves when looked up with no expected id: the lookup fails with
\* RefNotFoundError, also after the later generation has registered elements.
C11_OldRefNeverResolves ==
    (IsLookup /\ returned.expected = Undefined /\ IssuedEarlier(returned.ref))
       => returned.kind = "RefNotFoundError"

\* C12: getElement with an expected generation id that differs from the id of
\* the current generation fails with StaleRefError, whether or not the ref
\* exists in the current generation.
C12_StaleIdIsStaleRefError ==
    (returned.op = "getElement" /\ currentSnapshot.active
        /\ Truthy(returned.expected) /\ returned.expected # currentSnapshot.id)
       => (returned.kind = "StaleRefError" /\ returned.kind # "RefNotFoundError")

\* Witness of C12: e0 is registered in the current generation and getElement
\* of e0 with the id of the previous generation has thrown StaleRefError.
C12_Witness ==
    /\ returned.op = "getElement"
    /\ returned.kind = "StaleRefError"
    /\ returned.ref = RefString(0)
    /\ FindRef(currentSnapshot, RefString(0)) # 0
    /\ Len(gens) = 2
    /\ returned.expected = gens[1].id
    /\ currentSnapshot.id = gens[2].id

\* C13: with no generation active getElement fails with RefNotFoundError for
\* every ref and every expected id; with a generation active and no expected
\* id it fails with RefNotFoundError for every ref absent from the generation.
C13_NotFound ==
    returned.op = "getElement" =>
       /\ ~currentSnapshot.active => returned.kind = "RefNotFoundError"
       /\ (currentSnapshot.active /\ returned.expected = Undefined
              /\ FindRef(currentSnapshot, returned.ref) = 0)
             => returned.kind = "RefNotFoundError"

\* Witness of C13: after clear(), getElement of a ref that the cleared
\* generation had issued, with that generation's id, has thrown
\* RefNotFoundError.
C13_Witness ==
    /\ returned.op = "getElement"
    /\ ~currentSnapshot.active
    /\ Len(gens) = 1
    /\ gens[1].n >= 1
    /\ returned.ref = RefString(0)
    /\ returned.expected = gens[1].id
    /\ returned.kind = "RefNotFoundError"

\* A step that made a registerElement call which did something new.
Registered == lastRef' # lastRef /\ lastRef' # NoReturn

\* C14: registerElement called with no generation active throws and leaves
\* the table as it was: no ref allocated, counter not advanced.
C14_RegisterNeedsGeneration ==
    [][(Registered /\ ~currentSnapshot.active) =>
          /\ lastRef'.ret = <<"throw", 0>>
          /\ currentSnapshot' = currentSnapshot
          /\ refCounter' = refCounter]_vars

\* Witness of C14: a generation with a ref was cleared and a registerElement
\* call made afterwards has thrown.
C14_Witness ==
    /\ lastRef.ret = <<"throw", 0>>
    /\ ~HasSnapshot
    /\ Len(gens) = 1
    /\ gens[1].n >= 1
    /\ refCounter = 0

\* C15: no two startNewSnapshot calls return the same id (here: the last two).
C15_FreshIds ==
    \A i, j \in 1..Len(gens) : i < j => gens[i].id # gens[j].id

\* C16: once selectWindow has changed the active window, no ref of the
\* snapshot taken before the change resolves.
C16_SwitchInvalidatesRefs ==
    (returned.op = "resolveToLocator" /\ switched) => returned.kind # "element"

\* C17: right after a process close event and right after close() has
\* completed no generation is active, so hasSnapshot() is false and
\* getAllRefs() is empty; and while no generation is active no ref resolves.
C17_ClosedMeansNoGeneration ==
    /\ ((\E i \in 1..Len(stateLog) : stateLog[i][3] = "event")
           \/ (\E k \in CloseIds : closes[k].pc = "done"))
          => (~HasSnapshot /\ GetAllRefs = <<>>)
    /\ (~HasSnapshot /\ IsLookup) => returned.kind = "RefNotFoundError"

\* Witness of C17: a generation with a ref was captured, the process closed,
\* the session was relaunched, and a lookup of that ref has failed.
C17_Witness ==
    /\ lastRef.ret = RefString(0)
    /\ ~HasSnapshot
    /\ procs[1] = "exited"
    /\ state = "ready"
    /\ returned.op = "resolveToLocator"
    /\ returned.ref = RefString(0)
    /\ returned.kind = "RefNotFoundError"

\* C18: pendingDialogs, the console log and the network log each hold at
\* most 100 entries.
C18_BuffersBounded ==
    /\ Len(pendingDialogs) <= BufferCap
    /\ Len(consoleMessages) <= BufferCap
    /\ Len(networkRequests) <= BufferCap

\* C19: a response event keeps the number of entries of the network log, sets
\* the status of the earliest entry with its URL and no status, and changes
\* no other entry; it changes nothing when there is no such entry.
C19_ResponseAnnotatesOne ==
    [][returned'.op = "response" =>
          LET i == FirstPending(networkRequests, returned'.url) IN
          /\ Len(networkRequests') = Len(networkRequests)
          /\ networkRequests' =
                IF i = 0 THEN networkRequests
                ELSE [networkRequests EXCEPT ![i].status = returned'.status]]_vars

Shorter(a, b) == IF a < b THEN a ELSE b

\* C20: for every limit >= 0 the readers return at most limit entries, the
\* limit most recent ones in arrival order, and none when limit is 0.
C20_ReadersReturnLastLimit ==
    returned.op \in {"getConsoleMessages", "getNetworkRequests"} =>
       LET buf == IF returned.op = "getConsoleMessages"
                  THEN consoleMessages ELSE networkRequests
           k   == Shorter(returned.limit, Len(buf))
       IN  /\ Len(returned.out) <= returned.limit
           /\ returned.out = SubSeq(buf, Len(buf) - k + 1, Len(buf))
           /\ returned.limit = 0 => returned.out = <<>>

C22_SelectWindow ==
    returned.op = "selectWindow" =>
       LET sel == returned.sel
           ws  == returned.ws
           inRange == ~sel.index.half /\ sel.index.whole \in 0..(Len(ws) - 1)
           byTitle == ~sel.hasIndex /\ sel.hasTitle /\ sel.title # <<>>
           hits == {i \in 1..Len(ws) :
                      ~IsClosed(ws[i]) /\ TitleMatches(Title(ws[i]), sel.title)}
       IN  /\ (sel.hasIndex /\ ~inRange) =>
                 (returned.kind = "Error" /\ currentPage = returned.before)
           /\ (sel.hasIndex /\ inRange) =>
                 (returned.kind = "ok" /\ currentPage = ws[sel.index.whole + 1])
           /\ (~sel.hasIndex /\ ~byTitle) =>
                 (returned.kind = "Error" /\ currentPage = returned.before)
           /\ (byTitle /\ hits = {}) =>
                 (returned.kind = "Error" /\ currentPage = returned.before)
           /\ (byTitle /\ hits # {}) =>
                 (returned.kind = "ok" /\ currentPage = ws[Min(hits)])

\* C23: close() never rejects, whether app.close() and the removal of the
\* temporary directory resolve or reject; and when it completes state is
\* idle and the process handle, the active window, the three buffers and the
\* snapshot generation are cleared.
C23_CloseAlwaysResets ==
    \A k \in CloseIds :
       /\ closes[k].pc # "rejected"
       /\ closes[k].pc = "done" => (state = "idle" /\ SessionCleared)

\* Witness of C23: a close() has completed although app.close() rejected
\* (the process is still running) and the temporary directory could not be
\* removed; a capture that started during the close had a generation open.
C23_Witness ==
    \E k \in CloseIds :
       /\ closes[k].pc = "done"
       /\ closes[k].target # 0
       /\ procs[closes[k].target] = "alive"
       /\ closes[k].dir \in dirs
       /\ capturing > 0

\* C24: when a browser_close handler returns (it never throws), on the
\* graceful path as on the forced and fallback paths, state is idle and the
\* process handle is cleared.
C24_BrowserCloseResets ==
    /\ returned.op = "browser_close" =>
          (returned.kind = "success" /\ state = "idle" /\ app = 0)
    /\ \A k \in CloseIds : closes[k].pc = "done" => (state = "idle" /\ app = 0)

\* C25: when a close() completes without its removal of the temporary
\* directory having failed, no temporary user-data directory that a launch of
\* the session created exists.
C25_NoTempDirLeft ==
    \A k \in CloseIds :
       (closes[k].pc = "done" /\ closes[k].dir \notin dirs) => dirs = {}

\* C29: a window that getPage() hands to a tool handler, or that
\* selectWindow() has made active, has the dialog, console and network
\* listeners registered on it.
C29_ListenersBeforeUse ==
    /\ (returned.op = "getPage" /\ returned.kind = "page") => wired[returned.page] > 0
    /\ (returned.op = "selectWindow" /\ returned.kind = "ok") => wired[currentPage] > 0


\* C26: a driver-delegated action (click, type, navigate, evaluate, wait)
\* that fails or times out changes nothing in the session: state, process
\* handle, active window, the three buffers and the current snapshot
\* generation are after the failure what they were before it.
C26_FailureChangesNothing ==
    [][(returned'.op = "action" /\ returned'.kind # "ok")
          => /\ state' = state
             /\ app' = app
             /\ currentPage' = currentPage
             /\ pendingDialogs' = pendingDialogs
             /\ consoleMessages' = consoleMessages
             /\ networkRequests' = networkRequests
             /\ currentSnapshot' = currentSnapshot
             /\ refCounter' = refCounter]_vars

\* A wait that timed out on a ready session that has a process, an active
\* window, entries in the three buffers and a generation with a ref.
C26_Witness ==
    /\ returned = Acted("browser_wait_for", "timeout")
    /\ state = "ready"
    /\ app # 0
    /\ currentPage # 0
    /\ Len(pendingDialogs) > 1
    /\ Len(consoleMessages) > 0
    /\ Len(networkRequests) > 0
    /\ currentSnapshot.active
    /\ Len(currentSnapshot.refs) > 0


\* C27: every takeScreenshot call with annotate set that has injected its
\* overlay runs the overlay removal before it returns or throws, whether
\* page.screenshot() succeeded or failed; a container in the document of an
\* open window belongs to a call that is still between its injection and
\* the end of its removal.
C27_OverlayAlwaysRemoved ==
    /\ (returned.op = "takeScreenshot" /\ returned.injected) => returned.removed
    /\ \A w \in WinIds :
          ~IsClosed(w) =>
             overlays[w] <= Cardinality({i \in ShotIds :
                                  /\ shot[i].page = w
                                  /\ shot[i].injected
                                  /\ shot[i].pc \in {"screenshot", "remove"}})

\* A call that injected its overlay, whose page.screenshot() failed on a
\* window that is still open, has ended by throwing after the removal, and
\* no container is left in the window.
C27_Witness ==
    /\ returned.op = "takeScreenshot"
    /\ returned.kind = "error"
    /\ returned.annotate
    /\ returned.injected
    /\ ~returned.captured
    /\ returned.removed
    /\ ~IsClosed(returned.page)
    /\ overlays[returned.page] = 0

\* C28: takeScreenshot with annotate set and no snapshot generation captures
\* a snapshot first, so every label that injectAnnotations sends to the page
\* is a ref of the generation that is current when it is sent.
C28_LabelsAreCurrentRefs ==
    returned.op = "injectAnnotations" =>
       /\ currentSnapshot.active
       /\ returned.labels \subseteq
             {currentSnapshot.refs[i].ref : i \in 1..Len(currentSnapshot.refs)}


\* Element i of document t and all its ancestors are rendered and not
\* aria-hidden.
RECURSIVE Exposed(_, _)
Exposed(t, i) ==
    i = 0 \/ (~t.el[i].hidden /\ ~t.el[i].ariaHidden /\ Exposed(t, t.parent[i]))

\* C30: every rendered, non-aria-hidden element with no hidden ancestor
\* that has a role or an accessible name is emitted exactly once and is
\* given a ref, however many role-less, name-less containers lie between
\* it and its nearest emitted ancestor.
C30_EveryNamedElementOnce ==
    returned.op = "captureSnapshot" =>
       \A i \in 1..MaxNodes :
          (Exposed(returned.dom, i)
             /\ (returned.dom.el[i].role # "" \/ returned.dom.el[i].name # ""))
          => /\ Cardinality({k \in 1..Len(returned.emitted) :
                                returned.emitted[k].el = i}) = 1
             /\ \A k \in 1..Len(returned.emitted) :
                   returned.emitted[k].el = i =>
                      FindRef(currentSnapshot, returned.emitted[k].ref) # 0


\* The emitted ancestors of element i in document t: the nesting depth of
\* its line.
RECURSIVE Depth(_, _, _)
Depth(t, i, els) ==
    IF t.parent[i] = 0 THEN 0
    ELSE (IF t.parent[i] \in els THEN 1 ELSE 0) + Depth(t, t.parent[i], els)

\* The line '- [ref] role "name" [level N]' of an element, name and level
\* parts only when set.
OutlineLine(depth, ref, e) ==
    Line(2 * depth,
         <<"- [", ref, "] ", IF e.role = "" THEN "generic" ELSE e.role>>
            \o (IF e.name # "" THEN <<" \"", e.name, "\"">> ELSE <<>>)
            \o (IF e.level # 0 THEN <<" [level ", e.level, "]">> ELSE <<>>))

\* The page with one level-1 heading "Welcome" followed by one button
\* "Sign In".
WelcomePage ==
    [parent |-> <<0, 1, 1>>,
     el |-> <<Element(FALSE, FALSE, "", "", FALSE), Heading("Welcome", 1),
              Element(FALSE, FALSE, "button", "Sign In", TRUE)>>]

\* C31: the outline of a snapshot has exactly one line per element that
\* has a ref, in increasing ref order from e0, of the form
\* '- [ref] role "name" [level N]' indented two spaces per nesting depth;
\* the page with the heading "Welcome" and the button "Sign In" gives
\* exactly '- [e0] heading "Welcome" [level 1]' and '- [e1] button "Sign In"'.
C31_OutlineOneLinePerRef ==
    returned.op = "captureSnapshot" =>
       LET t == returned.dom
           out == returned.emitted
           els == {out[k].el : k \in 1..Len(out)}
       IN  /\ Len(returned.text) = Len(out)
           /\ \A k \in 1..Len(out) :
                 /\ out[k].ref = RefString(k - 1)
                 /\ k <= Len(returned.text) =>
                       returned.text[k] =
                          OutlineLine(Depth(t, out[k].el, els), out[k].ref,
                                      t.el[out[k].el])
           /\ t = WelcomePage =>
                 returned.text =
                    <<Line(0, <<"- [", RefString(0), "] ", "heading",
                                " \"", "Welcome", "\"", " [level ", 1, "]">>),
                      Line(0, <<"- [", RefString(1), "] ", "button",
                                " \"", "Sign In", "\"">>)>>


\* C32: for every registered element resolveToLocator selects by role and
\* name when both are non-empty, else by test id when one was recorded,
\* else by the selector stored at registration; the choice agrees with the
\* priority of the selector computed at registration (role+name, test id,
\* role alone, synthetic selector); the element ("button", "Submit") is
\* resolved by role and name.
C32_LocatorFollowsSelector ==
    (returned.op = "resolveToLocator" /\ returned.kind = "element") =>
       LET e == returned.element
           loc == returned.locator
       IN  /\ e.selector[1] =
                 (IF e.role # "" /\ e.name # "" THEN "role+name"
                  ELSE IF e.testId # "" THEN "testid"
                  ELSE IF e.role # "" THEN "role" ELSE "data-ref")
           /\ e.selector[1] = "data-ref" => e.selector[2] = e.ref
           /\ e.selector[1] = "role+name" => loc = <<"getByRole", 1, e.role, e.name>>
           /\ e.selector[1] = "testid" => loc = <<"getByTestId", 1, e.testId>>
           /\ e.selector[1] \in {"role", "data-ref"} => loc = <<"locator", 1, e.selector>>
           /\ (e.role = "button" /\ e.name = "Submit") =>
                 loc = <<"getByRole", 1, "button", "Submit">>

\* The element ("button", "Submit") registered with a test id as well has
\* been resolved by role and name.
C32_Witness ==
    /\ returned.op = "resolveToLocator"
    /\ returned.kind = "element"
    /\ returned.element.role = "button"
    /\ returned.element.name = "Submit"
    /\ returned.element.testId = "submit-btn"
    /\ returned.locator[1] = "getByRole"

\* A text made of pieces is empty when it has no piece or its pieces are
\* all empty strings.
NonEmpty(pieces) == \E i \in 1..Len(pieces) : pieces[i] # ""

C34_StaleCloseChangesNothing ==
    [][(\E p \in LaunchIds : procs[p] = "alive" /\ procs'[p] = "exited" /\ app # p)
          => /\ state' = state
             /\ currentPage' = currentPage
             /\ currentSnapshot' = currentSnapshot]_vars

\* C35: every started process that has not exited is the one held as the
\* session's process handle, so that no process runs unreferenced and no
\* two started processes are alive at once.
C35_AliveProcessIsHeld ==
    \A p \in LaunchIds : procs[p] = "alive" => app = p

\* The buffer an event is recorded in.
BufferOf(op, dialogs, console, network) ==
    CASE op = "dialog" -> dialogs
      [] op = "console" -> console
      [] OTHER -> network

\* C36: a dialog, console message or network request emitted by a window
\* is appended to its buffer exactly once, whichever launch wiring,
\* getPage() adoptions and selectWindow() calls have targeted the window.
C36_EventRecordedOnce ==
    [][returned'.op \in {"dialog", "console", "request"} =>
          LET before == BufferOf(returned'.op, pendingDialogs, consoleMessages, networkRequests)
              after == BufferOf(returned'.op, pendingDialogs', consoleMessages',
                                networkRequests')
          IN  Len(before) < BufferCap => Len(after) = Len(before) + 1]_vars

\* C37: when captureSnapshot calls overlap, each returned snapshot has its
\* refs numbered from e0 in traversal order, and every ref of it is
\* registered in the generation whose snapshotId the result reports.
C37_OverlappingCapturesKeepTheirRefs ==
    returned.op = "captureSnapshot" =>
        \A k \in 1..Len(returned.refs) :
            /\ returned.refs[k] = RefString(k - 1)
            /\ returned.registered[k] = returned.snapshotId

\* C38: every ref that has a recorded bounding box is a ref of the current
\* generation, and no bounding box is recorded once the generation has
\* been cleared.
C38_BoxesBelongToCurrentGeneration ==
    /\ currentSnapshot.active =>
          boxes \subseteq {currentSnapshot.refs[i].ref : i \in 1..Len(currentSnapshot.refs)}
    /\ ~currentSnapshot.active => boxes = {}

\* C39: browser_tabs with action list reports as activeIndex the index of
\* the window tracked as the active window, as long as that window is open.
C39_ListReportsActiveWindow ==
    (returned.op = "browser_tabs" /\ currentPage # 0 /\ ~IsClosed(currentPage)) =>
        /\ returned.activeIndex >= 0
        /\ returned.windows[returned.activeIndex + 1].window = currentPage

\* A browser_close handler starts in this step, on a session whose state
\* is idle, error or closed.
ClosesWhenNotRunning ==
    /\ state \in {"idle", "error", "closed"}
    /\ \/ \E c \in CallIds : CallsNow[c].pc = "none" /\ calls'[c].pc # "none"
       \/ \E k \in CloseIds : ClosesNow[k].pc = "none" /\ closes'[k].pc # "none"

\* C40: browser_close invoked in state idle, error or closed starts no
\* launch.
C40_CloseWhenIdleStartsNothing ==
    [][ClosesWhenNotRunning =>
          \A l \in LaunchIds : LaunchesNow[l].pc = "none" => launches'[l].pc = "none"]_vars

====
